---- MODULE Spec2Model ----
(***************************************************************************)
(* Model of the client-side logic of the check-printing front end.         *)
(*                                                                         *)
(* Part 1: the SSO device-authorization poller of site/settings.js.        *)
(* The page runs on one event loop: a handler runs to its next `await`     *)
(* without interruption, so each action below is one such run: a click     *)
(* handler up to its fetch, the continuation of a handler after its        *)
(* response arrived, or one firing of the interval callback up to its      *)
(* fetch.  Requests in flight are kept in sets; their responses arrive in  *)
(* any order and with any of the payloads the handlers tell apart.         *)
(***************************************************************************)
EXTENDS Integers, Sequences, FiniteSets, Bags, TLC

\* Bounds of the model (not program constants).
MaxStarts == 2      \* start-button clicks in one behaviour
MaxPolls == 2       \* poll requests issued in one behaviour
MaxSubmits == 1     \* submissions of the settings form in one behaviour

\* JavaScript null for the timer handle and the device code.
Null == 0

\* A page that is not open.
NoPage == [ open |-> FALSE, requests |-> {}, options |-> << >> ]

\* No function is under study; nothing was returned yet.
NoCall == [ fn |-> "", arg |-> << >> ]
NoResult == [ done |-> FALSE ]

VARIABLES
    devicePollTimer,     \* settings.js:19  handle of the interval timer, or Null
    deviceCodeValue,     \* settings.js:20  device code of the last successful start, or Null
    devicePollInterval,  \* settings.js:21  milliseconds between ticks
    deviceStatus,        \* the #sso-device-status element: message, error class, innerHTML used
    timers,              \* the browser's interval timers created and not yet cleared
    startReqs,           \* /api/sso/device/start requests awaiting their response
    nextStart,           \* number of the next start request
    polls,               \* bag of the /api/sso/device/poll requests awaiting their response
    nextPoll,            \* number of the next poll request
    statusReqs,          \* /api/sso/status requests awaiting their response
    phase,               \* history: state of the poller's state machine
    refreshCalls,        \* history: number of refreshSsoStatus calls made by poll handlers
    cancelled,           \* history: the timer handles a start click has cleared
    answered,            \* history: shape of the sequence of poll answers received so far
    last,                \* history: the handler that ran last, and how its response was handled
    call,                \* the function under study and its argument (NoCall on the settings page)
    result,              \* what that function returned (NoResult before it ran)
    settingsStatus,      \* the #settings-status element: message, error class, innerHTML used
    loadReqs,            \* GET /api/global-settings requests awaiting their response
    saveReqs,            \* POST /api/global-settings requests awaiting their response
    nextSave,            \* number of the next submission of the settings form
    blank,               \* the blank-checks page: its fields, latestRun and requests in flight
    preset               \* the preset controls of the check form page

vars == << devicePollTimer, deviceCodeValue, devicePollInterval, deviceStatus,
           timers, startReqs, nextStart, polls, nextPoll, statusReqs,
           phase, refreshCalls, cancelled, answered, last, call, result,
           settingsStatus, loadReqs, saveReqs, nextSave, blank, preset >>

\* The state of the settings form.
FormVars == << settingsStatus, loadReqs, saveReqs, nextSave >>

(***************************************************************************)
(* Responses.  A response either is thrown (network error, or a body that  *)
(* response.json() cannot parse) or carries an HTTP status and a payload.  *)
(* Absent payload fields are the falsy values "" and 0.                    *)
(***************************************************************************)
NoPayload ==
    [ error_code |-> "", setting |-> "", error |-> "", status |-> "",
      authenticated |-> FALSE, device_code |-> Null, interval |-> 0 ]

Thrown(msg) == [ thrown |-> TRUE, message |-> msg, status |-> 0, payload |-> NoPayload ]

Http(code, payload) == [ thrown |-> FALSE, message |-> "", status |-> code, payload |-> payload ]

NoResponse == Http(0, NoPayload)

\* Response.ok of the fetch API: the status is in the range 200-299.
ok(response) == response.status >= 200 /\ response.status <= 299

MissingPayload == [ NoPayload EXCEPT !.error_code = "missing_required_setting",
                                     !.setting = "sso_url",
                                     !.error = "Missing required setting sso_url." ]

FailureResponses ==
    { Http(400, MissingPayload),
      Http(400, [ NoPayload EXCEPT !.error = "expired_token" ]),
      Http(500, NoPayload),
      Thrown("Failed to fetch") }

StartResponses(s) ==
    { Http(200, [ NoPayload EXCEPT !.device_code = s, !.interval = i ]) : i \in {0, 3, 7} }
      \cup FailureResponses

PollResponses ==
    { Http(202, [ NoPayload EXCEPT !.status = "pending" ]),
      Http(200, [ NoPayload EXCEPT !.status = "authorized" ]),
      Http(200, [ NoPayload EXCEPT !.status = "pending" ]) }
      \cup FailureResponses

StatusResponses ==
    { Http(200, [ NoPayload EXCEPT !.authenticated = TRUE ]),
      Http(200, NoPayload) }
      \cup FailureResponses

(***************************************************************************)
(* Helpers of settings.js.                                                 *)
(***************************************************************************)
\* History only: how a response was handled; a thrown one is told apart from
\* an explicit failure.
Kind(outcome, response) == IF response.thrown THEN "thrown" ELSE outcome

\* a || b on strings.
OrElse(a, b) == IF a # "" THEN a ELSE b

setStatus(message, isError, allowHtml) ==
    [ message |-> message, isError |-> isError, allowHtml |-> allowHtml ]

setDeviceStatus(message, isError, allowHtml) ==
    [ message |-> message, isError |-> isError, allowHtml |-> allowHtml ]

\* The result null is "".
formatMissingSettingMessage(payload) ==
    IF payload.error_code # "missing_required_setting"
    THEN ""
    ELSE "Missing required setting " \o payload.setting
         \o ". Update it on the <a href=\"/settings.html\">settings page</a>."

\* clearInterval(handle) on the browser's timer table; clearing Null is a no-op.
clearInterval(table, handle) == table \ {handle}

\* A start handler that takes the server's interval as it comes.
PollIntervalOf_NoClamp(payload) ==
    (IF payload.interval # 0 THEN payload.interval ELSE 5) * 1000

\* Math.max(5, payload.interval || 5) * 1000
PollIntervalOf(payload) ==
    LET given == IF payload.interval # 0 THEN payload.interval ELSE 5
    IN  (IF given > 5 THEN given ELSE 5) * 1000

Event(op, kind, timer, code) ==
    [ op |-> op, kind |-> kind, timer |-> timer, code |-> code ]

\* A poll request in flight: the timer whose tick sent it, and the device code in its body.
PollRequest(t, code) == [ timer |-> t, code |-> code ]

(***************************************************************************)
(* Initial state: the script has run to its end, which called              *)
(* loadSettings() and refreshSsoStatus() once each.                        *)
(***************************************************************************)
Loaded ==
    /\ devicePollTimer = Null
    /\ deviceCodeValue = Null
    /\ devicePollInterval = 5000
    /\ deviceStatus = setDeviceStatus("", FALSE, FALSE)
    /\ timers = {}
    /\ startReqs = {}
    /\ nextStart = 1
    /\ polls = EmptyBag
    /\ nextPoll = 1
    /\ statusReqs = 1
    /\ phase = "Idle"
    /\ refreshCalls = 0
    /\ cancelled = {}
    /\ answered = "waiting"
    /\ last = Event("load", "", Null, Null)
    /\ settingsStatus = setStatus("", FALSE, FALSE)
    /\ loadReqs = 1
    /\ saveReqs = 0
    /\ nextSave = 1

Init ==
    /\ Loaded
    /\ call = NoCall
    /\ result = NoResult
    /\ blank = NoPage
    /\ preset = NoPage

(***************************************************************************)
(* Click on the start button: the handler up to `await fetch(start)`.      *)
(***************************************************************************)
\* A start click that leaves the running timer alone.
StartClickTimers_NoClear == timers

\* The timer table after `if (devicePollTimer) clearInterval(devicePollTimer)`.
StartClickTimers ==
    IF devicePollTimer # Null THEN clearInterval(timers, devicePollTimer) ELSE timers

StartClick ==
    /\ nextStart <= MaxStarts
    /\ timers' = StartClickTimers
    /\ cancelled' = IF devicePollTimer # Null
                    THEN cancelled \cup {devicePollTimer} ELSE cancelled
    /\ devicePollTimer' = Null
    /\ startReqs' = startReqs \cup {nextStart}
    /\ nextStart' = nextStart + 1
    /\ phase' = "Starting"
    /\ last' = Event("StartClick", "", devicePollTimer, Null)
    /\ UNCHANGED << deviceCodeValue, devicePollInterval, deviceStatus, polls,
                    nextPoll, statusReqs, refreshCalls, answered, call, result, FormVars, blank, preset >>

(***************************************************************************)
(* The start request's response arrives: the rest of the click handler.    *)
(***************************************************************************)
\* Which way the handler leaves its try block (settings.js:131-139).
StartOutcome(response) ==
    IF response.thrown THEN "failed"
    ELSE IF ~ok(response)
         THEN IF formatMissingSettingMessage(response.payload) # ""
              THEN "missing" ELSE "failed"
         ELSE "started"

\* A start handler that shows the missing-setting message as plain text.
StartErrorStatus_TextOnly(response) ==
    IF response.thrown
    THEN setDeviceStatus(OrElse(response.message, "Unable to start device login."), TRUE, FALSE)
    ELSE IF formatMissingSettingMessage(response.payload) # ""
         THEN setDeviceStatus(formatMissingSettingMessage(response.payload), TRUE, FALSE)
         ELSE setDeviceStatus(OrElse(response.payload.error, "Unable to start device login."),
                              TRUE, FALSE)

\* The message given to setDeviceStatus when the start did not succeed.
StartErrorStatus(response) ==
    IF response.thrown
    THEN setDeviceStatus(OrElse(response.message, "Unable to start device login."), TRUE, FALSE)
    ELSE IF formatMissingSettingMessage(response.payload) # ""
         THEN setDeviceStatus(formatMissingSettingMessage(response.payload), TRUE, TRUE)
         ELSE setDeviceStatus(OrElse(response.payload.error, "Unable to start device login."),
                              TRUE, FALSE)

\* The handle setInterval returns: one never handed out before.  A start
\* handler calls setInterval at most once, so the number of its request serves.
setInterval(s) == s

StartResponse(s, response) ==
    /\ s \in startReqs
    /\ startReqs' = startReqs \ {s}
    /\ IF StartOutcome(response) = "started"
       THEN /\ deviceCodeValue' = response.payload.device_code
            /\ devicePollInterval' = PollIntervalOf(response.payload)
            /\ deviceStatus' = setDeviceStatus("Waiting for authorization...", FALSE, FALSE)
            /\ devicePollTimer' = setInterval(s)
            /\ timers' = timers \cup {setInterval(s)}
            /\ phase' = "Pending"
       ELSE /\ deviceStatus' = StartErrorStatus(response)
            /\ phase' = "Idle"
            /\ UNCHANGED << deviceCodeValue, devicePollInterval, devicePollTimer, timers >>
    /\ last' = Event("StartResponse", Kind(StartOutcome(response), response), Null, s)
    /\ UNCHANGED << nextStart, polls, nextPoll, statusReqs, refreshCalls, cancelled, answered,
                    call, result, FormVars, blank, preset >>

(***************************************************************************)
(* The interval timer fires: the callback up to `await fetch(poll)`.       *)
(***************************************************************************)
\* A callback that gives up after its first attempt.
TickSends_Once(t) == t \in timers /\ nextPoll <= 1

\* The callback sends a poll request on every firing of a live timer; the
\* bound on nextPoll only keeps the model finite.
TickSends(t) == t \in timers /\ nextPoll <= MaxPolls

Tick(t) ==
    /\ TickSends(t)
    /\ polls' = polls (+) SetToBag({PollRequest(t, deviceCodeValue)})
    /\ nextPoll' = nextPoll + 1
    /\ last' = Event("Tick", "", t, deviceCodeValue)
    /\ UNCHANGED << devicePollTimer, deviceCodeValue, devicePollInterval, deviceStatus,
                    timers, startReqs, nextStart, statusReqs, phase, refreshCalls, cancelled,
                    answered, call, result, FormVars, blank, preset >>

(***************************************************************************)
(* refreshSsoStatus(): the call sends the request; its response sets the   *)
(* device status.                                                          *)
(***************************************************************************)
refreshSsoStatus(requests) == requests + 1

RefreshStatus(response) ==
    IF response.thrown
    THEN setDeviceStatus(OrElse(response.message, "Unable to check SSO status."), TRUE, FALSE)
    ELSE IF ~ok(response)
         THEN IF formatMissingSettingMessage(response.payload) # ""
              THEN setDeviceStatus(formatMissingSettingMessage(response.payload), TRUE, TRUE)
              ELSE setDeviceStatus(OrElse(response.payload.error, "Unable to check SSO status."),
                                   TRUE, FALSE)
         ELSE IF response.payload.authenticated
              THEN setDeviceStatus("SSO session is active.", FALSE, FALSE)
              ELSE setDeviceStatus("SSO session is not active.", TRUE, FALSE)

RefreshResponse(response) ==
    /\ statusReqs > 0
    /\ statusReqs' = statusReqs - 1
    /\ deviceStatus' = RefreshStatus(response)
    /\ last' = Event("RefreshResponse", Kind("", response), Null, Null)
    /\ UNCHANGED << devicePollTimer, deviceCodeValue, devicePollInterval, timers,
                    startReqs, nextStart, polls, nextPoll, phase, refreshCalls, cancelled,
                    answered, call, result, FormVars, blank, preset >>

(***************************************************************************)
(* A poll request's response arrives: the rest of the interval callback.   *)
(***************************************************************************)
\* Which branch of the callback handles the response (settings.js:156-181).
PollOutcome(response) ==
    IF response.thrown THEN "failed"
    ELSE IF response.status = 202 THEN "waiting"
    ELSE IF ~ok(response)
         THEN IF formatMissingSettingMessage(response.payload) # ""
              THEN "missing" ELSE "failed"
    ELSE IF response.payload.status = "authorized" THEN "authorized"
    ELSE "ignored"

\* A callback that also stops the timer on a 202 answer.
PollEnds_OnWaitingToo(response) ==
    PollOutcome(response) \in {"waiting", "missing", "failed", "authorized"}

\* A callback that also stops the timer on a successful answer that is not
\* an authorization.
PollEnds_OnIgnoredToo(response) ==
    PollOutcome(response) \in {"ignored", "missing", "failed", "authorized"}

\* The branches that clear the timer and null the handle.
PollEnds(response) == PollOutcome(response) \in {"missing", "failed", "authorized"}

\* A callback that reports a successful answer without an authorization as
\* a failure.
PollStatus_IgnoredFails(response, current) ==
    CASE PollOutcome(response) = "waiting" ->
            setDeviceStatus("Waiting for authorization...", FALSE, FALSE)
      [] PollOutcome(response) = "missing" ->
            setDeviceStatus(formatMissingSettingMessage(response.payload), TRUE, TRUE)
      [] PollOutcome(response) \in {"failed", "ignored"} ->
            setDeviceStatus(OrElse(IF response.thrown THEN response.message
                                   ELSE response.payload.error,
                                   "Device authorization failed."), TRUE, FALSE)
      [] PollOutcome(response) = "authorized" ->
            setDeviceStatus("SSO device login complete.", FALSE, FALSE)
      [] OTHER -> current

\* A callback without the missing-setting branch: every failure shows the
\* generic message.
PollStatus_GenericOnly(response, current) ==
    CASE PollOutcome(response) = "waiting" ->
            setDeviceStatus("Waiting for authorization...", FALSE, FALSE)
      [] PollOutcome(response) \in {"missing", "failed"} ->
            setDeviceStatus(OrElse(IF response.thrown THEN response.message
                                   ELSE response.payload.error,
                                   "Device authorization failed."), TRUE, FALSE)
      [] PollOutcome(response) = "authorized" ->
            setDeviceStatus("SSO device login complete.", FALSE, FALSE)
      [] OTHER -> current

PollStatus(response, current) ==
    CASE PollOutcome(response) = "waiting" ->
            setDeviceStatus("Waiting for authorization...", FALSE, FALSE)
      [] PollOutcome(response) = "missing" ->
            setDeviceStatus(formatMissingSettingMessage(response.payload), TRUE, TRUE)
      [] PollOutcome(response) = "failed" ->
            setDeviceStatus(OrElse(IF response.thrown THEN response.message
                                   ELSE response.payload.error,
                                   "Device authorization failed."), TRUE, FALSE)
      [] PollOutcome(response) = "authorized" ->
            setDeviceStatus("SSO device login complete.", FALSE, FALSE)
      [] OTHER -> current

\* History only: how the poll answers have run so far: "waiting" (only 202
\* answers), "authorized" (202 answers, then only authorized ones) or "other".
AnswerShape(shape, response) ==
    CASE PollOutcome(response) = "waiting" /\ shape = "waiting" -> "waiting"
      [] PollOutcome(response) = "authorized" /\ shape # "other" -> "authorized"
      [] OTHER -> "other"

PollResponse(p, response) ==
    /\ BagIn(p, polls)
    /\ polls' = polls (-) SetToBag({p})
    /\ deviceStatus' = PollStatus(response, deviceStatus)
    /\ timers' = IF PollEnds(response)
                 THEN clearInterval(timers, devicePollTimer) ELSE timers
    /\ devicePollTimer' = IF PollEnds(response) THEN Null ELSE devicePollTimer
    /\ statusReqs' = IF PollOutcome(response) = "authorized"
                     THEN refreshSsoStatus(statusReqs) ELSE statusReqs
    /\ phase' = CASE PollOutcome(response) = "authorized" -> "Authorized"
                  [] PollOutcome(response) \in {"missing", "failed"} -> "Failed"
                  [] OTHER -> phase
    /\ refreshCalls' = IF PollOutcome(response) = "authorized"
                       THEN refreshCalls + 1 ELSE refreshCalls
    /\ answered' = AnswerShape(answered, response)
    /\ last' = Event("PollResponse", Kind(PollOutcome(response), response), p.timer, p.code)
    /\ UNCHANGED << deviceCodeValue, devicePollInterval, startReqs, nextStart, nextPoll,
                    cancelled, call, result, FormVars, blank, preset >>

Next ==
    \/ StartClick
    \/ \E s \in startReqs : \E response \in StartResponses(s) : StartResponse(s, response)
    \/ \E t \in timers : Tick(t)
    \/ \E p \in BagToSet(polls) : \E response \in PollResponses : PollResponse(p, response)
    \/ \E response \in StatusResponses : RefreshResponse(response)

Spec == Init /\ [][Next]_vars

(***************************************************************************)
(* The settings form of the same page: loadSettings() and the submit       *)
(* handler.  They report in the #settings-status element.                  *)
(***************************************************************************)
SettingsResponses == { Http(200, NoPayload) } \cup FailureResponses

\* The response to loadSettings() arrives (settings.js:71-84); the values
\* it writes into the input fields are not kept.
LoadResponse(response) ==
    /\ loadReqs > 0
    /\ loadReqs' = loadReqs - 1
    /\ settingsStatus' = IF response.thrown \/ ~ok(response)
                         THEN setStatus("Unable to load settings.", TRUE, FALSE)
                         ELSE settingsStatus
    /\ last' = Event("LoadResponse", Kind("", response), Null, Null)
    /\ UNCHANGED << devicePollTimer, deviceCodeValue, devicePollInterval, deviceStatus,
                    timers, startReqs, nextStart, polls, nextPoll, statusReqs,
                    phase, refreshCalls, cancelled, answered, call, result, blank, preset,
                    saveReqs, nextSave >>

\* Submit: the handler up to `await fetch(...)` (settings.js:87-104).
Submit ==
    /\ nextSave <= MaxSubmits
    /\ saveReqs' = saveReqs + 1
    /\ nextSave' = nextSave + 1
    /\ last' = Event("Submit", "", Null, Null)
    /\ UNCHANGED << devicePollTimer, deviceCodeValue, devicePollInterval, deviceStatus,
                    timers, startReqs, nextStart, polls, nextPoll, statusReqs,
                    phase, refreshCalls, cancelled, answered, call, result, blank, preset,
                    settingsStatus, loadReqs >>

\* The message the submit handler shows for its response (settings.js:105-117).
SubmitStatus(response) ==
    IF response.thrown
    THEN setStatus(OrElse(response.message, "Unable to save settings."), TRUE, FALSE)
    ELSE IF ~ok(response)
         THEN IF formatMissingSettingMessage(response.payload) # ""
              THEN setStatus(formatMissingSettingMessage(response.payload), TRUE, TRUE)
              ELSE setStatus(OrElse(response.payload.error, "Unable to save settings."),
                             TRUE, FALSE)
         ELSE setStatus("Settings saved.", FALSE, FALSE)

SubmitResponse(response) ==
    /\ saveReqs > 0
    /\ saveReqs' = saveReqs - 1
    /\ settingsStatus' = SubmitStatus(response)
    /\ last' = Event("SubmitResponse", Kind("", response), Null, Null)
    /\ UNCHANGED << devicePollTimer, deviceCodeValue, devicePollInterval, deviceStatus,
                    timers, startReqs, nextStart, polls, nextPoll, statusReqs,
                    phase, refreshCalls, cancelled, answered, call, result, blank, preset,
                    loadReqs, nextSave >>

\* The whole page: the poller and the settings form side by side.
PageNext ==
    \/ Next
    \/ \E response \in SettingsResponses : LoadResponse(response)
    \/ Submit
    \/ \E response \in SettingsResponses : SubmitResponse(response)

PageSpec == Init /\ [][PageNext]_vars

(***************************************************************************)
(* Properties of the device-authorization poller.                          *)
(***************************************************************************)
\* The poll requests in flight that a tick of timer t sent.
OutstandingOf(t) ==
    BagCardinality([ p \in { q \in BagToSet(polls) : q.timer = t } |-> polls[p] ])

TerminalKinds == {"authorized", "missing", "failed", "thrown"}

\* C1: in every reachable state at most one interval timer that was created
\* and not yet cleared exists.
C1_AtMostOneTimer == Cardinality(timers) <= 1

\* C2: timer ticks are serialized: no timer has two of its poll requests
\* outstanding at the same time.
C2_TicksSerialized == \A t \in 1..MaxStarts : OutstandingOf(t) <= 1

C4_AuthorizedOnce ==
    ( /\ nextStart = 2
      /\ startReqs = {}
      /\ answered = "authorized"
      /\ polls = EmptyBag )
    => /\ phase = "Authorized"
       /\ devicePollTimer = Null
       /\ timers = {}
       /\ refreshCalls = 1

\* C5: once the poller is Authorized or Failed no polling timer is active
\* and no tick sends a poll request, until a new start.
C5_TerminalNoTimer ==
    phase \in {"Authorized", "Failed"}
        => /\ devicePollTimer = Null
           /\ timers = {}
           /\ last.op # "Tick"

\* C6: a poll response that is neither waiting nor a success nulls the
\* handle, displays an error, moves the poller to Failed and leaves no timer
\* that would send a later poll for the session: the timer that sent the
\* poll is cleared, and no live timer remains while the device code is
\* still that of the failed poll.
C6_PollFailureEndsSession ==
    (last.op = "PollResponse" /\ last.kind \in {"missing", "failed"})
        => /\ devicePollTimer = Null
           /\ deviceStatus.isError
           /\ phase = "Failed"
           /\ last.timer \notin timers
           /\ (timers = {} \/ deviceCodeValue # last.code)

\* C7: a thrown start or poll request (network error, unparseable body)
\* ends like an explicit failure: an error status is displayed and the
\* session keeps no polling timer (for a start, the timer of that start's
\* handler; for a poll, the handle is null and the timer that sent the poll
\* is cleared).
C7_ThrownEndsSession ==
    /\ (last.op = "StartResponse" /\ last.kind = "thrown")
           => /\ deviceStatus.isError
              /\ setInterval(last.code) \notin timers
    /\ (last.op = "PollResponse" /\ last.kind = "thrown")
           => /\ deviceStatus.isError
              /\ devicePollTimer = Null
              /\ last.timer \notin timers

\* C8: a start response that fails (generic error, missing required
\* setting, or thrown) returns the poller to Idle: an error message is
\* displayed, as markup naming the setting in the missing-setting case, and
\* the step creates no timer and leaves the handle as it was.
C8_StartFailureToIdle ==
    [][ (last'.op = "StartResponse" /\ last'.kind \in {"failed", "missing", "thrown"})
            => /\ phase' = "Idle"
               /\ deviceStatus'.isError
               /\ deviceStatus'.message # ""
               /\ timers' = timers
               /\ devicePollTimer' = devicePollTimer
               /\ (last'.kind = "missing")
                      => /\ deviceStatus'.allowHtml
                         /\ deviceStatus'.message =
                              "Missing required setting sso_url. Update it on the <a href=\"/settings.html\">settings page</a>."
               /\ (last'.kind # "missing") => ~deviceStatus'.allowHtml ]_vars

\* C8 witness: the only start request ended with the missing-setting
\* payload, and no timer exists.
C8_Witness ==
    /\ last.op = "StartResponse"
    /\ last.kind = "missing"
    /\ deviceStatus.allowHtml
    /\ phase = "Idle"
    /\ timers = {}
    /\ startReqs = {}

\* C9: a poll response with status 202 changes neither the handle, the
\* timer table, the device code nor the interval, leaves the poller's phase
\* as it was, and sets the status to the waiting message without the error
\* class.
C9_WaitingKeepsPending ==
    [][ (last'.op = "PollResponse" /\ last'.kind = "waiting")
            => /\ devicePollTimer' = devicePollTimer
               /\ timers' = timers
               /\ deviceCodeValue' = deviceCodeValue
               /\ devicePollInterval' = devicePollInterval
               /\ phase' = phase
               /\ statusReqs' = statusReqs
               /\ deviceStatus' = [ message |-> "Waiting for authorization...",
                                    isError |-> FALSE, allowHtml |-> FALSE ] ]_vars

\* C9 witness: a 202 answer was handled while the poller was Pending and
\* its timer is still running.
C9_Witness ==
    /\ last.op = "PollResponse"
    /\ last.kind = "waiting"
    /\ phase = "Pending"
    /\ devicePollTimer # Null
    /\ devicePollTimer \in timers

\* C10: there is no maximum attempt count.  A live timer is removed only by
\* a start click or by a poll response that is authorized or a failure, the
\* poller leaves Pending only on those or on the failure of a restart, and
\* a live timer can always tick, whatever the number of polls sent so far
\* (up to the model's bound), each tick sending one more poll request.
C10_NoAttemptLimit ==
    [][ /\ (timers \ timers' # {})
            => \/ last'.op = "StartClick"
               \/ (last'.op = "PollResponse" /\ last'.kind \in TerminalKinds)
        /\ (phase = "Pending" /\ phase' # "Pending")
            => \/ last'.op = "StartClick"
               \/ (last'.op = "PollResponse" /\ last'.kind \in TerminalKinds)
               \/ (last'.op = "StartResponse" /\ last'.kind # "started")
        /\ (\A t \in timers : nextPoll <= MaxPolls => ENABLED Tick(t))
        /\ (last'.op = "Tick")
            => BagCardinality(polls') = BagCardinality(polls) + 1 ]_vars

\* C10 witness: every poll the bound allows was answered waiting, and the
\* timer is still running.
C10_Witness ==
    /\ nextPoll = MaxPolls + 1
    /\ polls = EmptyBag
    /\ last.op = "PollResponse"
    /\ last.kind = "waiting"
    /\ answered = "waiting"
    /\ devicePollTimer \in timers

\* C11: each tick issues exactly one poll request, and that request carries
\* the device code returned by the start call that created the ticking
\* timer.  The start request numbered s returns device code s and its
\* handler creates the timer setInterval(s), so the code of timer t's start
\* call is the s with setInterval(s) = t.
C11_TickCarriesOwnCode ==
    (last.op = "Tick")
        => /\ BagIn(PollRequest(last.timer, last.code), polls)
           /\ \A s \in 1..MaxStarts : setInterval(s) = last.timer => last.code = s

(***************************************************************************)
(* Part 2: the currency formatter (numberToWords and formatAmount of the   *)
(* check form script).  Input text is a sequence of one-character strings; *)
(* output text is a string.  A parsed amount is kept exactly, as a sign, a *)
(* mantissa and the number of fraction digits: the value is                *)
(* (-1)^neg * mant / 10^scale.                                             *)
(***************************************************************************)
smallNumbers ==
    << "Zero", "One", "Two", "Three", "Four", "Five", "Six", "Seven", "Eight", "Nine",
       "Ten", "Eleven", "Twelve", "Thirteen", "Fourteen", "Fifteen", "Sixteen",
       "Seventeen", "Eighteen", "Nineteen" >>

tens ==
    << "", "", "Twenty", "Thirty", "Forty", "Fifty", "Sixty", "Seventy", "Eighty", "Ninety" >>

\* What indexing an array outside its elements yields.
Undefined == "<undefined>"

\* array[index], JavaScript's zero-based indexing.
At(array, index) ==
    IF index >= 0 /\ index < Len(array) THEN array[index + 1] ELSE Undefined

RECURSIVE numberToWords(_)

\* A formatter that appends the words of the remainder even when it is zero.
remainderWords_Always(remainder) == " " \o numberToWords(remainder)

\* remainder ? ` ${numberToWords(remainder)}` : ""
remainderWords(remainder) ==
    IF remainder # 0 THEN " " \o numberToWords(remainder) ELSE ""

\* A last band without its upper limit.
InThousands_Any(value) == TRUE

\* The guard of the last band: value < 10000.
InThousands(value) == value < 10000

numberToWords(value) ==
    IF value < 20 THEN At(smallNumbers, value)
    ELSE IF value < 100
         THEN LET whole == value \div 10
                  remainder == value % 10
              IN  IF remainder # 0
                  THEN At(tens, whole) \o " " \o At(smallNumbers, remainder)
                  ELSE At(tens, whole)
    ELSE IF value < 1000
         THEN LET whole == value \div 100
                  remainder == value % 100
              IN  At(smallNumbers, whole) \o " Hundred" \o remainderWords(remainder)
    ELSE IF InThousands(value)
         THEN LET whole == value \div 1000
                  remainder == value % 1000
              IN  At(smallNumbers, whole) \o " Thousand" \o remainderWords(remainder)
    ELSE ""

(***************************************************************************)
(* Number.parseFloat on texts without an exponent part and without         *)
(* "Infinity": leading white space is skipped, then the longest prefix of  *)
(* the form [+-] digits [. digits] or [+-] . digits is the number; a text  *)
(* with no such prefix is NaN.                                             *)
(***************************************************************************)
DigitChars == << "0", "1", "2", "3", "4", "5", "6", "7", "8", "9" >>

IsDigit(c) == \E d \in 1..10 : DigitChars[d] = c

DigitValue(c) == (CHOOSE d \in 1..10 : DigitChars[d] = c) - 1

RECURSIVE Pow10(_)
Pow10(k) == IF k = 0 THEN 1 ELSE 10 * Pow10(k - 1)

RECURSIVE SkipWhiteSpace(_)
SkipWhiteSpace(text) ==
    IF text # << >> /\ Head(text) = " " THEN SkipWhiteSpace(Tail(text)) ELSE text

\* The longest prefix of text made of digits.
RECURSIVE DigitPrefix(_)
DigitPrefix(text) ==
    IF text # << >> /\ IsDigit(Head(text))
    THEN << Head(text) >> \o DigitPrefix(Tail(text))
    ELSE << >>

RECURSIVE DigitsValue(_)
DigitsValue(digits) ==
    IF digits = << >> THEN 0
    ELSE 10 * DigitsValue(SubSeq(digits, 1, Len(digits) - 1))
         + DigitValue(digits[Len(digits)])

NaN == [ nan |-> TRUE, neg |-> FALSE, mant |-> 0, scale |-> 0 ]

Amount(neg, mant, scale) == [ nan |-> FALSE, neg |-> neg, mant |-> mant, scale |-> scale ]

parseFloat(text) ==
    LET trimmed == SkipWhiteSpace(text)
        signed == trimmed # << >> /\ Head(trimmed) \in {"+", "-"}
        neg == signed /\ Head(trimmed) = "-"
        body == IF signed THEN Tail(trimmed) ELSE trimmed
        whole == DigitPrefix(body)
        rest == SubSeq(body, Len(whole) + 1, Len(body))
        fraction == IF rest # << >> /\ Head(rest) = "."
                    THEN DigitPrefix(Tail(rest)) ELSE << >>
    IN  IF whole = << >> /\ fraction = << >>
        THEN NaN
        ELSE Amount(neg, DigitsValue(whole \o fraction), Len(fraction))

(***************************************************************************)
(* Arithmetic of formatAmount on the exact amount.                         *)
(***************************************************************************)
\* The amount in units of 10^-scale, signed.
Units(amount) == IF amount.neg THEN 0 - amount.mant ELSE amount.mant

\* Math.floor(amount)
Floor(amount) == Units(amount) \div Pow10(amount.scale)

\* The nearest integers to units * 100 / 10^scale, for units >= 0.  The
\* script rounds binary floating-point numbers, and the double nearest to a
\* decimal tie (a value ending in exactly half a cent) lies just below or
\* just above it: at a tie either neighbour can be the result, elsewhere the
\* nearest integer is.
Hundredths(units, scale) ==
    IF scale <= 2 THEN { units * Pow10(2 - scale) }
    ELSE LET denominator == Pow10(scale - 2)
             down == units \div denominator
             twice == 2 * (units % denominator)
         IN  IF twice < denominator THEN {down}
             ELSE IF twice > denominator THEN {down + 1}
             ELSE {down, down + 1}

\* The fractional remainder amount - dollars, in units of 10^-scale.
Remainder(amount) == Units(amount) - Floor(amount) * Pow10(amount.scale)

\* A formatter that drops the digits after the cents instead of rounding.
CentsOf_Truncated(amount) ==
    { IF amount.scale <= 2 THEN Remainder(amount) * Pow10(2 - amount.scale)
      ELSE Remainder(amount) \div Pow10(amount.scale - 2) }

\* Math.round((amount - dollars) * 100)
CentsOf(amount) == Hundredths(Remainder(amount), amount.scale)

RECURSIVE String(_)
\* String(n) for an integer n >= 0.
String(n) == IF n < 10 THEN DigitChars[n + 1] ELSE String(n \div 10) \o DigitChars[(n % 10) + 1]

\* A formatter that prints the number as it is.
padStart_None(n, width) == String(n)

\* String(n).padStart(width, "0")
padStart(n, width) ==
    IF width >= 3 /\ n < 100 THEN (IF n < 10 THEN "00" ELSE "0") \o String(n)
    ELSE IF width = 2 /\ n < 10 THEN "0" \o String(n)
    ELSE String(n)

RECURSIVE Grouped(_)
\* The integer digits of the en-US locale: groups of three split by commas.
Grouped(n) ==
    IF n < 1000 THEN String(n)
    ELSE Grouped(n \div 1000) \o "," \o padStart(n % 1000, 3)

\* amount.toLocaleString("en-US", {minimumFractionDigits: 2, maximumFractionDigits: 2}):
\* the amount rounded to hundredths (at a tie to either neighbour, as above),
\* the minus sign kept for a negative amount.
toLocaleString(amount) ==
    { (IF amount.neg THEN "-" ELSE "") \o Grouped(h \div 100) \o "." \o padStart(h % 100, 2) :
        h \in Hundredths(amount.mant, amount.scale) }

\* A formatter that prints whatever numberToWords returned.
OrEmpty_Keep(text) == text

\* a || b for a text that may be undefined.
OrEmpty(text) == IF text = Undefined \/ text = "" THEN "" ELSE text

\* A result of formatAmount; dollars and cents are the locals of that name.
Formatted(formatted, words, dollars, cents) ==
    [ done |-> TRUE, formatted |-> formatted, words |-> words,
      dollars |-> dollars, cents |-> cents ]

\* A formatter without the Number.isNaN guard: NaN goes through the arithmetic.
ParseFailure_Unguarded == Formatted("NaN", " and NaN/100", 0, 0)

\* The fixed result for an amount that is not a number.
ParseFailure == Formatted("0.00", "Zero and 00/100", 0, 0)

\* The results formatAmount(rawAmount) can return (one, except at a tie).
formatAmount(rawAmount) ==
    LET amount == parseFloat(IF rawAmount = << >> THEN << "0" >> ELSE rawAmount)
    IN  IF amount.nan
        THEN { ParseFailure }
        ELSE LET dollars == Floor(amount)
                 dollarsWords == OrEmpty(numberToWords(dollars))
             IN  { Formatted(formatted, dollarsWords \o " and " \o padStart(cents, 2) \o "/100",
                             dollars, cents) :
                     formatted \in toLocaleString(amount), cents \in CentsOf(amount) }

(***************************************************************************)
(* Part 3: the functions under study, each applied once to an argument     *)
(* drawn from a bounded set.                                               *)
(***************************************************************************)
\* Bounds of the arguments (not program constants).
MaxInterval == 12         \* seconds the server may supply as the poll interval
MaxValue == 10010         \* largest value given to numberToWords directly
MaxFractionDigits == 3    \* digits typed after the decimal point

\* The digits of n >= 0, as typed.
RECURSIVE Typed(_)
Typed(n) ==
    IF n < 10 THEN << DigitChars[n + 1] >>
    ELSE Typed(n \div 10) \o << DigitChars[(n % 10) + 1] >>

\* Whole-dollar parts typed into the amount field: one of every band of
\* numberToWords, the last value it names, and amounts beyond it.
TypedDollars == { 0, 19, 1234, 9999, 10000, 12345 }

\* What can follow the whole dollars: nothing, a bare point, or a point and
\* up to MaxFractionDigits digits.
TypedFractions ==
    { << >>, << "." >> }
        \cup UNION { { << "." >> \o Typed(Pow10(k) + f)
                         : f \in 0..(Pow10(k) - 1) } : k \in 1..MaxFractionDigits }

\* Typed(10^k + f) is "1" followed by the k digits of f; the "1" is dropped.
FractionText(fraction) ==
    IF Len(fraction) <= 1 THEN fraction
    ELSE << "." >> \o SubSeq(fraction, 3, Len(fraction))

TypedAmounts ==
    { Typed(d) \o FractionText(fraction) : d \in TypedDollars, fraction \in TypedFractions }

\* Negative amounts: below one dollar and above.
NegativeAmounts ==
    { << "-" >> \o Typed(d) \o FractionText(fraction) :
        d \in { 0, 7 }, fraction \in TypedFractions }

\* Texts that are not a number, texts of which only a prefix is one, and
\* some more negative amounts.
OtherTexts ==
    { << "-", "0" >>, << "-", "1", ".", "2", "5" >>, << "-", "0", ".", "0", "0", "1" >>,
      << "-", "1", "2", "3", "4", "5", ".", "5" >>, << >>, << " " >>, << "-" >>, << "." >>, << "+" >>, << "-", "." >>,
      << "a", "b", "c" >>, << "$", "5" >>, << ",", "5" >>, << "o", "n", "e" >>,
      << " ", "7" >>, << "+", "3" >>, << ".", "5" >>, << "-", ".", "5" >>,
      << "1", "2", "a", "b", "c" >>, << "1", ",", "2", "3", "4", ".", "5", "0" >>,
      << "1", ".", "2", ".", "3" >>, << "1", "9", ".", "5", " " >> }

Calls ==
    { [ fn |-> "start", arg |-> i ] : i \in 0..MaxInterval }
        \cup { [ fn |-> "numberToWords", arg |-> v ] : v \in 0..MaxValue }
        \cup { [ fn |-> "formatAmount", arg |-> text ] : text \in TypedAmounts \cup NegativeAmounts \cup OtherTexts }

FnInit ==
    /\ Loaded
    /\ call \in Calls
    /\ result = NoResult
    /\ blank = NoPage
    /\ preset = NoPage

PollerVars ==
    << devicePollTimer, deviceCodeValue, devicePollInterval, deviceStatus,
       timers, startReqs, nextStart, polls, nextPoll, statusReqs,
       phase, refreshCalls, cancelled, answered, last, FormVars, blank, preset >>

\* The click whose start request will be answered with the interval under study.
ClickStart ==
    /\ call.fn = "start"
    /\ nextStart = 1
    /\ StartClick

\* The successful start response carrying that interval (0: none was sent).
StartedWith(s, interval) ==
    Http(200, [ NoPayload EXCEPT !.device_code = s, !.interval = interval ])

Started ==
    /\ call.fn = "start"
    /\ \E s \in startReqs : StartResponse(s, StartedWith(s, call.arg))

ApplyNumberToWords ==
    /\ call.fn = "numberToWords"
    /\ ~result.done
    /\ result' = [ done |-> TRUE, words |-> numberToWords(call.arg) ]
    /\ UNCHANGED << PollerVars, call >>

ApplyFormatAmount ==
    /\ call.fn = "formatAmount"
    /\ ~result.done
    /\ result' \in formatAmount(call.arg)
    /\ UNCHANGED << PollerVars, call >>

FnNext ==
    \/ ClickStart
    \/ Started
    \/ ApplyNumberToWords
    \/ ApplyFormatAmount

FnSpec == FnInit /\ [][FnNext]_vars

\* C13: the timer handle changes only in a start click, in the handling of
\* a successful start response and in the handling of a poll response that
\* ends the session (authorized, or failed in any way); every other step
\* (a waiting or ignored poll response, the response to refreshSsoStatus,
\* the response to loadSettings, the form's submit and its response, a
\* tick) leaves it as it was.  Checked under PageSpec.
C13_HandleOwnedByPoller ==
    [][ /\ (devicePollTimer' # devicePollTimer)
            => \/ last'.op = "StartClick"
               \/ last'.op = "StartResponse" /\ last'.kind = "started"
               \/ /\ last'.op = "PollResponse"
                  /\ last'.kind \in {"authorized", "failed", "missing", "thrown"}
        /\ (\/ last'.op \in {"RefreshResponse", "LoadResponse", "Submit", "SubmitResponse"}
            \/ last'.op = "PollResponse" /\ last'.kind = "waiting")
            => devicePollTimer' = devicePollTimer ]_vars

\* C13 witness: the form was saved while a polling timer was running, and
\* the timer is still the one the handle holds.
C13_Witness ==
    /\ last.op = "SubmitResponse"
    /\ settingsStatus.message = "Settings saved."
    /\ devicePollTimer # Null
    /\ devicePollTimer \in timers
    /\ loadReqs = 0

C23_StaleResponseHarmless ==
    [][ (/\ last'.op = "PollResponse"
         /\ last'.timer \in cancelled
         /\ devicePollTimer # Null
         /\ devicePollTimer # last'.timer)
            => /\ devicePollTimer' = devicePollTimer
               /\ devicePollTimer \in timers'
               /\ phase' = phase ]_vars

\* C28: a poll response with an OK status other than 202 whose payload
\* status is not "authorized" changes nothing: handle, timers, status
\* element, device code, interval and state stay as they were, no status
\* refresh is requested, and every live timer can tick again.
C28_OtherSuccessIgnored ==
    [][ (last'.op = "PollResponse" /\ last'.kind = "ignored")
            => /\ devicePollTimer' = devicePollTimer
               /\ timers' = timers
               /\ deviceStatus' = deviceStatus
               /\ deviceCodeValue' = deviceCodeValue
               /\ devicePollInterval' = devicePollInterval
               /\ phase' = phase
               /\ statusReqs' = statusReqs
               /\ \A t \in timers' : nextPoll' <= MaxPolls => ENABLED Tick(t) ]_vars

\* C28 witness: such an answer was handled while the session's timer was
\* running, and the timer still runs with the waiting message on display.
C28_Witness ==
    /\ last.op = "PollResponse" /\ last.kind = "ignored"
    /\ phase = "Pending"
    /\ devicePollTimer # Null /\ devicePollTimer \in timers
    /\ deviceStatus = setDeviceStatus("Waiting for authorization...", FALSE, FALSE)

(***************************************************************************)
(* Properties of the functions, checked under FnSpec.                      *)
(***************************************************************************)
\* C12: after a successful start the poll interval is 1000 * max(5, interval)
\* milliseconds for the interval the server supplied, 5000 when it supplied
\* none (or 0), and so never below 5000.
C12_IntervalClamped ==
    (call.fn = "start" /\ last.op = "StartResponse")
        => /\ devicePollInterval = (IF call.arg >= 5 THEN 1000 * call.arg ELSE 5000)
           /\ call.arg = 0 => devicePollInterval = 5000
           /\ devicePollInterval >= 5000
           /\ devicePollTimer # Null

C12_Witness ==
    /\ call.fn = "start" /\ last.op = "StartResponse"
    /\ call.arg = 3 /\ devicePollInterval = 5000 /\ devicePollTimer \in timers

\* The banded composition, digit by digit: the names of the thousands digit,
\* of the hundreds digit and of the part below one hundred, in this order,
\* each present only when its digits are not zero; "Zero" for 0.
NameBelow100(n) ==
    IF n < 20 THEN smallNumbers[n + 1]
    ELSE IF n % 10 = 0 THEN tens[(n \div 10) + 1]
    ELSE tens[(n \div 10) + 1] \o " " \o smallNumbers[(n % 10) + 1]

Spaced(left, right) ==
    IF left = "" THEN right ELSE IF right = "" THEN left ELSE left \o " " \o right

Banded(n) ==
    LET thousands == IF n >= 1000 THEN smallNumbers[(n \div 1000) + 1] \o " Thousand" ELSE ""
        hundreds == IF (n \div 100) % 10 # 0
                    THEN smallNumbers[((n \div 100) % 10) + 1] \o " Hundred" ELSE ""
        below == IF n % 100 # 0 \/ n = 0 THEN NameBelow100(n % 100) ELSE ""
    IN  Spaced(thousands, Spaced(hundreds, below))

\* The values the specification spells out.
SpelledOut ==
    << << 0, "Zero" >>, << 19, "Nineteen" >>, << 20, "Twenty" >>, << 21, "Twenty One" >>,
       << 99, "Ninety Nine" >>, << 100, "One Hundred" >>, << 101, "One Hundred One" >>,
       << 999, "Nine Hundred Ninety Nine" >>, << 1000, "One Thousand" >>,
       << 1001, "One Thousand One" >>,
       << 1234, "One Thousand Two Hundred Thirty Four" >>,
       << 9999, "Nine Thousand Nine Hundred Ninety Nine" >> >>

\* C15: for every n in 0..9999 numberToWords(n) returns the banded
\* composition, with the values at the edges of the bands in the right band.
C15_BandedWords ==
    (call.fn = "numberToWords" /\ result.done /\ call.arg <= 9999)
        => /\ result.words = Banded(call.arg)
           /\ result.words # Undefined
           /\ \A i \in 1..Len(SpelledOut) :
                  call.arg = SpelledOut[i][1] => result.words = SpelledOut[i][2]

C15_Witness ==
    /\ call.fn = "numberToWords" /\ result.done
    /\ call.arg = 1001 /\ result.words = "One Thousand One"

\* A text in which parseFloat finds no number: after the leading spaces and
\* one sign there is neither a digit nor a point followed by a digit.
NotNumeric(text) ==
    LET spaces == Cardinality({ k \in 1..Len(text) : \A i \in 1..k : text[i] = " " })
        signs == IF spaces < Len(text) /\ text[spaces + 1] \in {"+", "-"} THEN 1 ELSE 0
        at == spaces + signs + 1
    IN  \/ at > Len(text)
        \/ /\ ~IsDigit(text[at])
           /\ ~(text[at] = "." /\ at < Len(text) /\ IsDigit(text[at + 1]))

\* C16: formatAmount returns for every text, and for the empty text, for "0"
\* and for a text that is not a number it returns "0.00" and
\* "Zero and 00/100".
C16_ParseFailureIsZero ==
    /\ (call.fn = "formatAmount") => formatAmount(call.arg) # {}
    /\ (call.fn = "formatAmount" /\ result.done
            /\ (call.arg = << >> \/ call.arg = << "0" >> \/ NotNumeric(call.arg)))
        => /\ result.formatted = "0.00"
           /\ result.words = "Zero and 00/100"

C16_Witness ==
    /\ call.fn = "formatAmount" /\ result.done
    /\ call.arg = << "a", "b", "c" >>
    /\ result.formatted = "0.00" /\ result.words = "Zero and 00/100"

\* The text starts with a digit: a non-negative amount.
NonNegative(text) == text # << >> /\ IsDigit(text[1])

\* n >= 0 in at least two digits.
TwoDigits(n) == IF n < 10 THEN "0" \o String(n) ELSE String(n)

\* C17: for a non-negative amount the cent part is an integer in 0..99 and
\* the words end in that number written in two digits.
C17_CentsBelow100 ==
    (call.fn = "formatAmount" /\ result.done /\ NonNegative(call.arg))
        => /\ result.cents \in 0..99
           /\ \E cc \in 0..99 :
                  result.words = numberToWords(result.dollars) \o " and " \o TwoDigits(cc) \o "/100"

\* The number written by the digits the text starts with.
LeadingNumber(text) ==
    LET k == Cardinality({ j \in 1..Len(text) : \A i \in 1..j : IsDigit(text[i]) })
    IN  DigitsValue(SubSeq(text, 1, k))

\* C18: the dollars are the floor of the amount whatever its fraction, and
\* a fraction that rounds up to 100 cents is printed as 100: 1234.999 gives
\* dollars 1234 and "One Thousand Two Hundred Thirty Four and 100/100".
C18_RoundingNotCarried ==
    (call.fn = "formatAmount" /\ result.done /\ NonNegative(call.arg))
        => /\ result.dollars = LeadingNumber(call.arg)
           /\ \A d \in TypedDollars : \A f \in 996..999 :
                  call.arg = Typed(d) \o << "." >> \o Typed(f)
                      => /\ result.dollars = d
                         /\ result.cents = 100
                         /\ result.words = numberToWords(d) \o " and 100/100"
           /\ call.arg = << "1", "2", "3", "4", ".", "9", "9", "9" >>
                  => result.words = "One Thousand Two Hundred Thirty Four and 100/100"

C18_Witness ==
    /\ call.fn = "formatAmount" /\ result.done
    /\ call.arg = << "1", "2", "3", "4", ".", "9", "9", "9" >>
    /\ result.dollars = 1234 /\ result.cents = 100

\* n >= 0 below a million with the en-US group separator.
WithCommas(n) ==
    IF n < 1000 THEN String(n)
    ELSE String(n \div 1000) \o ","
         \o String((n \div 100) % 10) \o String((n \div 10) % 10) \o String(n % 10)

\* A decimal point and two digits.
TwoDecimals == { "." \o TwoDigits(f) : f \in 0..99 }

\* C19: for a parseable amount with dollars d in 0..9999 and cents c the
\* words are numberToWords(d), " and ", c in two digits, "/100", and the
\* formatted amount has exactly two fractional digits; "19.5" gives "19.50"
\* and "Nineteen and 50/100".
C19_WordsAndTwoDecimals ==
    (call.fn = "formatAmount" /\ result.done /\ ~NotNumeric(call.arg)
            /\ result.dollars \in 0..9999)
        => /\ result.words = numberToWords(result.dollars) \o " and "
                                 \o TwoDigits(result.cents) \o "/100"
           /\ \E sign \in { "", "-" } :
              \E i \in { result.dollars, result.dollars + 1 } : \E decimals \in TwoDecimals :
                  result.formatted = sign \o WithCommas(i) \o decimals
           /\ call.arg = << "1", "9", ".", "5" >>
                  => result.formatted = "19.50" /\ result.words = "Nineteen and 50/100"

C19_Witness ==
    /\ call.fn = "formatAmount" /\ result.done
    /\ call.arg = << "1", "9", ".", "5" >>
    /\ result.formatted = "19.50" /\ result.words = "Nineteen and 50/100"

\* C20: numberToWords(n) is the empty text for n >= 10000, so the words of
\* an amount of 10,000 or more start with " and ": no dollars are named.
C20_NoWordsFrom10000 ==
    /\ (call.fn = "numberToWords" /\ result.done /\ call.arg >= 10000)
        => result.words = ""
    /\ (call.fn = "formatAmount" /\ result.done /\ result.dollars >= 10000)
        => result.words = " and " \o TwoDigits(result.cents) \o "/100"

C20_Witness ==
    /\ call.fn = "formatAmount" /\ result.done
    /\ call.arg = << "1", "2", "3", "4", "5", ".", "5" >>
    /\ result.dollars = 12345 /\ result.words = " and 50/100"

\* C27: for a non-negative amount with dollars below 10,000 the formatted
\* amount and the words denote the same value: the integer part of the
\* formatted amount is the number the words spell, and its two decimals are
\* the CC of the words.
C27_FormattedMatchesWords ==
    (call.fn = "formatAmount" /\ result.done /\ NonNegative(call.arg)
            /\ result.dollars < 10000)
        => /\ result.formatted = WithCommas(result.dollars) \o "." \o TwoDigits(result.cents)
           /\ result.words = Banded(result.dollars) \o " and "
                                 \o TwoDigits(result.cents) \o "/100"

\* C29: a negative amount is formatted without an error: dollars is the
\* floor of the amount (negative), numberToWords has no name for it, and the
\* words are " and CC/100" with nothing before, CC being the distance from
\* the floor rounded to cents.
C29_NegativeAmounts ==
    (call.fn = "formatAmount" /\ result.done
            /\ ~parseFloat(call.arg).nan /\ parseFloat(call.arg).neg
            /\ parseFloat(call.arg).mant > 0)
        => LET amount == parseFloat(call.arg)
               scale == Pow10(amount.scale)
               distance == (0 - amount.mant) - result.dollars * scale
           IN  /\ result.dollars < 0
               /\ result.dollars * scale <= 0 - amount.mant
               /\ 0 - amount.mant < (result.dollars + 1) * scale
               /\ numberToWords(result.dollars) = Undefined
               /\ result.words = " and " \o TwoDigits(result.cents) \o "/100"
               /\ result.cents \in 0..100
               /\ 2 * (result.cents * scale - 100 * distance) <= scale
               /\ 2 * (100 * distance - result.cents * scale) <= scale
               /\ call.arg = << "-", "1", ".", "2", "5" >>
                      => result.dollars = -2 /\ result.words = " and 75/100"

C29_Witness ==
    /\ call.fn = "formatAmount" /\ result.done
    /\ call.arg = << "-", "1", ".", "2", "5" >>
    /\ result.dollars = -2 /\ result.cents = 75 /\ result.words = " and 75/100"

(***************************************************************************)
(* Part 4: the blank-checks page (site/blank_checks.js).  The page state   *)
(* is the record `blank`: the form controls the handlers read and write,   *)
(* the module variables latestRun and dsqlAccounts, the requests awaiting  *)
(* their response, and history fields.  Texts typed into fields and        *)
(* account names are sequences of one-character strings.                   *)
(***************************************************************************)
\* Bounds of the page model (not program constants).
MaxEvents == 4      \* user events (changes, edits, clicks, submissions) in one behaviour

\* text.trim(): the text without its leading and trailing spaces.
RECURSIVE trim(_)
trim(text) ==
    IF text = << >> THEN text
    ELSE IF Head(text) = " " THEN trim(Tail(text))
    ELSE IF text[Len(text)] = " " THEN trim(SubSeq(text, 1, Len(text) - 1))
    ELSE text

\* Number.parseInt(text, 10): the number written by the sign and the digits
\* that follow the leading spaces, NaN when there is no digit there.
parseInt(text) ==
    LET start == SkipWhiteSpace(text)
        signed == start # << >> /\ Head(start) \in { "-", "+" }
        digits == DigitPrefix(IF signed THEN Tail(start) ELSE start)
    IN  IF digits = << >> THEN [ nan |-> TRUE, value |-> 0 ]
        ELSE IF signed /\ Head(start) = "-"
        THEN [ nan |-> FALSE, value |-> 0 - DigitsValue(digits) ]
        ELSE [ nan |-> FALSE, value |-> DigitsValue(digits) ]

\* parsed || 1: NaN and 0 are falsy.
OrOne(parsed) == IF parsed.nan \/ parsed.value = 0 THEN 1 ELSE parsed.value

\* setStatus(target, message, isError); arg is the name a message quotes.
setTargetStatus(message, arg, isError) ==
    [ message |-> message, arg |-> arg, isError |-> isError ]

NoStatus == setTargetStatus("", << >>, FALSE)

\* let latestRun = null
NoRun == [ set |-> FALSE ]

\* A request awaiting its response.  kind is "refresh" (GET of an account
\* list), "save" (POST /api/accounts), "generate" (POST /generate-blank) or
\* "update" (POST of a check number).  endpoint is the path, with {} where
\* the account name `name` goes; source is the account source the handler
\* read; key and number are the one field of an update's body; first and
\* total are the field texts a generation posts; `after` is the account name
\* a save handler selects once its refresh is done.
Request(kind, id, endpoint, source, name, key, number, first, total, after) ==
    [ kind |-> kind, id |-> id, endpoint |-> endpoint, source |-> source, name |-> name,
      key |-> key, number |-> number, first |-> first, total |-> total, after |-> after ]

NoRequest == Request("", 0, "", "", << >>, "", 0, << >>, << >>, << >>)

\* History: the handler that ran last, how it went, and the request it sent.
Ran(op, kind, sent) == [ op |-> op, kind |-> kind, sent |-> sent ]

\* Payloads of the page's endpoints; absent fields are falsy.
NoBlankPayload == [ error |-> "", accounts |-> << >>, name |-> << >>, number |-> 0 ]

BlankFailures ==
    { Http(400, [ NoBlankPayload EXCEPT !.error = "No such account." ]),
      Thrown("Failed to fetch") }

\* Account names the user types or the server knows.
Names == { << >>, << " " >>, << "a" >> }

\* Texts typed into the first-check-number and total-checks fields.
NumberTexts == { << "7" >>, << "x" >> }

\* The lists GET /api/accounts returns, and the lists GET /api/dsql/accounts
\* returns (the second account has no name).
LocalLists == { << >>, << << "a" >>, << "b" >> >> }

\* JSON values of a number field: absent, a number, or a string.
Missing == [ kind |-> "missing", number |-> 0, text |-> << >> ]

JsonNumber(n) == [ kind |-> "number", number |-> n, text |-> << >> ]

JsonString(text) == [ kind |-> "string", number |-> 0, text |-> text ]

DsqlAccount(id, name, next) ==
    [ bank_account_id |-> id, name |-> name, next_check_number |-> next ]

DsqlLists ==
    { << >>,
      << DsqlAccount(3, << "d" >>, JsonNumber(5)), DsqlAccount(4, << >>, Missing) >> }

RefreshResponses(source) ==
    { Http(200, [ NoBlankPayload EXCEPT !.accounts = list ]) :
        list \in IF source = "dsql" THEN DsqlLists ELSE LocalLists }
      \cup BlankFailures

(***************************************************************************)
(* Initial state: the script has run to its end, which called              *)
(* refreshAccounts() for the source the select shows.                      *)
(***************************************************************************)
\* An <option>: its value, and (history) the refresh that appended it.
Option(value, refresh) == [ value |-> value, refresh |-> refresh ]

\* refreshAccounts() up to its fetch: the select is emptied to its
\* placeholder, which also deselects, and the list of `source` is requested.
\* A save handler passes the name to select afterwards and the name the
\* server answered with.
refreshAccounts(page, after, saved) ==
    [ page EXCEPT
        !.options = << >>,
        !.selected = << >>,
        !.requests = @ \cup { Request("refresh", page.nextRefresh,
                                      IF page.source = "dsql" THEN "/api/dsql/accounts"
                                      ELSE "/api/accounts",
                                      page.source, saved, "", 0, << >>, << >>, after) },
        !.nextRefresh = @ + 1,
        !.returned = << >> ]

BlankLoaded(source) ==
    refreshAccounts(
        [ open |-> TRUE,
          source |-> source,
          options |-> << >>,
          selected |-> << >>,
          loadDisabled |-> FALSE,
          saveDisabled |-> FALSE,
          nameDisabled |-> FALSE,
          name |-> << >>,
          first |-> << "1" >>,
          total |-> << "1" >>,
          lastNumber |-> << "1" >>,
          latestRun |-> NoRun,
          dsqlAccounts |-> << >>,
          accountStatus |-> NoStatus,
          dsqlStatus |-> NoStatus,
          printStatus |-> NoStatus,
          printResultHidden |-> TRUE,
          requests |-> {},
          nextRefresh |-> 1,
          events |-> 0,
          returned |-> << >>,
          last |-> Ran("load", "", NoRequest) ],
        << >>, << >>)

\* Everything but the blank-checks page.
NotBlank ==
    << devicePollTimer, deviceCodeValue, devicePollInterval, deviceStatus,
       timers, startReqs, nextStart, polls, nextPoll, statusReqs,
       phase, refreshCalls, cancelled, answered, last, call, result, FormVars, preset >>

BlankInit ==
    /\ Loaded
    /\ call = NoCall
    /\ result = NoResult
    /\ preset = NoPage
    /\ blank \in { BlankLoaded(source) : source \in { "local", "dsql" } }

\* The request a handler sent, with the history of the step.
Did(page, op, kind, sent) == [ page EXCEPT !.last = Ran(op, kind, sent) ]

\* The refresh request refreshAccounts(page, ...) has just sent.
SentRefresh(page) == CHOOSE r \in page.requests : r.kind = "refresh" /\ r.id = page.nextRefresh - 1

(***************************************************************************)
(* The user changes the account source (blank_checks.js:287-293).          *)
(***************************************************************************)
SourceChange(source) ==
    /\ blank.open
    /\ blank.events < MaxEvents
    /\ source # blank.source
    /\ LET changed == [ blank EXCEPT !.source = source,
                                     !.nameDisabled = (source = "dsql"),
                                     !.saveDisabled = (source = "dsql"),
                                     !.accountStatus = NoStatus,
                                     !.events = @ + 1 ]
           refreshed == refreshAccounts(changed, << >>, << >>)
       IN  blank' = Did(refreshed, "SourceChange", "", SentRefresh(refreshed))
    /\ UNCHANGED NotBlank

(***************************************************************************)
(* The response to a refresh arrives: the rest of refreshAccounts(), and   *)
(* of the save handler that awaited it (blank_checks.js:88-124, 180-181).  *)
(***************************************************************************)
\* The options refreshAccounts appends for the accounts of a payload.
NewOptions(r, payload) ==
    [ i \in 1..Len(payload.accounts) |->
        IF r.source = "dsql"
        THEN Option(Typed(payload.accounts[i].bank_account_id), r.id)
        ELSE Option(payload.accounts[i], r.id) ]

\* select.value = name: the option of that value is selected, none if there is no such option.
SelectValue(options, name) ==
    IF \E i \in 1..Len(options) : options[i].value = name THEN name ELSE << >>

\* The page after refreshAccounts() handled its response.
Refreshed(page, r, response) ==
    IF response.thrown \/ ~ok(response)
    THEN IF r.source = "dsql"
         THEN [ page EXCEPT
                  !.loadDisabled = TRUE,
                  !.dsqlStatus = setTargetStatus(
                      IF response.thrown
                      THEN OrElse(response.message, "Unable to load DSQL accounts.")
                      ELSE OrElse(response.payload.error, "Failed to load DSQL accounts."),
                      << >>, TRUE) ]
         ELSE [ page EXCEPT
                  !.loadDisabled = TRUE,
                  !.accountStatus = setTargetStatus("Unable to load accounts.", << >>, TRUE) ]
    ELSE [ page EXCEPT
             !.dsqlAccounts = IF r.source = "dsql" THEN response.payload.accounts ELSE @,
             !.options = @ \o NewOptions(r, response.payload),
             !.loadDisabled = (Len(response.payload.accounts) = 0),
             !.dsqlStatus = IF r.source = "dsql"
                            THEN setTargetStatus("Loaded DSQL accounts.", << >>, FALSE)
                            ELSE NoStatus,
             !.returned = IF r.id = page.nextRefresh - 1
                          THEN [ i \in 1..Len(response.payload.accounts) |->
                                   NewOptions(r, response.payload)[i].value ]
                          ELSE @ ]

AccountsResponse(r, response) ==
    /\ blank.open
    /\ r \in blank.requests /\ r.kind = "refresh"
    /\ LET received == [ blank EXCEPT !.requests = @ \ {r} ]
           refreshed == Refreshed(received, r, response)
           done == IF r.after = << >> THEN refreshed
                   ELSE [ refreshed EXCEPT
                            !.selected = SelectValue(refreshed.options, r.after),
                            !.accountStatus = setTargetStatus("Saved account", r.name, FALSE) ]
       IN  blank' = Did(done, "AccountsResponse",
                        Kind(IF ok(response) THEN "listed" ELSE "failed", response), NoRequest)
    /\ UNCHANGED NotBlank

(***************************************************************************)
(* The user picks an account, types a name, types the check numbers.       *)
(***************************************************************************)
SelectAccount(i) ==
    /\ blank.open
    /\ blank.events < MaxEvents
    /\ i \in 1..Len(blank.options)
    /\ blank.selected # blank.options[i].value
    /\ blank' = Did([ blank EXCEPT !.selected = blank.options[i].value, !.events = @ + 1 ],
                    "SelectAccount", "", NoRequest)
    /\ UNCHANGED NotBlank

EditName(name) ==
    /\ blank.open
    /\ ~blank.nameDisabled
    /\ blank.events < MaxEvents
    /\ name # blank.name
    /\ blank' = Did([ blank EXCEPT !.name = name, !.events = @ + 1 ], "EditName", "", NoRequest)
    /\ UNCHANGED NotBlank

EditNumbers(first, total) ==
    /\ blank.open
    /\ blank.events < MaxEvents
    /\ << first, total >> # << blank.first, blank.total >>
    /\ blank' = Did([ blank EXCEPT !.first = first, !.total = total, !.events = @ + 1 ],
                    "EditNumbers", "", NoRequest)
    /\ UNCHANGED NotBlank

(***************************************************************************)
(* Click on the save-account button, and the response to its POST          *)
(* (blank_checks.js:159-185).                                              *)
(***************************************************************************)
\* A click handler without guards.
SaveGuard_None(page) == "send"

\* What the click handler does: "dsql" and "unnamed" are its two guards.
SaveGuard(page) ==
    IF page.source = "dsql" THEN "dsql"
    ELSE IF trim(page.name) = << >> THEN "unnamed"
    ELSE "send"

SaveClick ==
    /\ blank.open
    /\ ~blank.saveDisabled
    /\ blank.events < MaxEvents
    /\ LET clicked == [ blank EXCEPT !.events = @ + 1 ]
           request == Request("save", clicked.events, "/api/accounts", "", trim(blank.name),
                              "last_check_number", OrOne(parseInt(blank.lastNumber)),
                              << >>, << >>, << >>)
       IN  blank' =
             CASE SaveGuard(blank) = "dsql" ->
                    Did([ clicked EXCEPT !.accountStatus = setTargetStatus(
                              "DSQL accounts are managed in the database.", << >>, TRUE) ],
                        "SaveClick", "dsql", NoRequest)
               [] SaveGuard(blank) = "unnamed" ->
                    Did([ clicked EXCEPT !.accountStatus = setTargetStatus(
                              "Add an account name before saving.", << >>, TRUE) ],
                        "SaveClick", "unnamed", NoRequest)
               [] OTHER ->
                    Did([ clicked EXCEPT !.requests = @ \cup {request} ],
                        "SaveClick", "send", request)
    /\ UNCHANGED NotBlank

SaveResponses(r) ==
    { Http(200, [ NoBlankPayload EXCEPT !.name = r.name ]) } \cup BlankFailures

SaveResponse(r, response) ==
    /\ blank.open
    /\ r \in blank.requests /\ r.kind = "save"
    /\ LET received == [ blank EXCEPT !.requests = @ \ {r} ]
       IN  blank' =
             IF response.thrown \/ ~ok(response)
             THEN Did([ received EXCEPT !.accountStatus = setTargetStatus(
                            IF response.thrown
                            THEN OrElse(response.message, "Unable to save account.")
                            ELSE OrElse(response.payload.error, "Unable to save account."),
                            << >>, TRUE) ],
                      "SaveResponse", Kind("failed", response), NoRequest)
             ELSE LET refreshed == refreshAccounts(received, r.name, response.payload.name)
                  IN  Did(refreshed, "SaveResponse", "saved", SentRefresh(refreshed))
    /\ UNCHANGED NotBlank

(***************************************************************************)
(* The blank-checks form is submitted, and the response to its POST        *)
(* (blank_checks.js:192-245).                                              *)
(***************************************************************************)
\* accountSelect.value || fields.name.value.trim()
AccountName(page) == IF page.selected # << >> THEN page.selected ELSE trim(page.name)

\* The last check number of a run of `total` checks from `first`.
LastOfRun(first, total) == OrOne(parseInt(first)) + OrOne(parseInt(total)) - 1

Generate ==
    /\ blank.open
    /\ blank.events < MaxEvents
    /\ LET submitted == [ blank EXCEPT !.events = @ + 1 ]
           request == Request("generate", submitted.events, "/generate-blank", blank.source,
                              AccountName(blank), "", 0, blank.first, blank.total, << >>)
       IN  blank' =
             IF AccountName(blank) = << >>
             THEN Did([ submitted EXCEPT
                          !.printResultHidden = FALSE,
                          !.printStatus = setTargetStatus("Select or save an account first.",
                                                          << >>, TRUE) ],
                      "Generate", "rejected", NoRequest)
             ELSE Did([ submitted EXCEPT !.requests = @ \cup {request} ],
                      "Generate", "send", request)
    /\ UNCHANGED NotBlank

GenerateResponses == { Http(200, NoBlankPayload) } \cup BlankFailures

\* latestRun as the handler records it: the account of the request, the
\* last number from the number fields as they are when the response is in.
RecordedRun(page, r) ==
    [ set |-> TRUE, accountName |-> r.name, accountSource |-> r.source,
      lastCheckNumber |-> LastOfRun(page.first, page.total) ]

\* A handler that forgets the recorded run when a generation fails.
GenerateResponse_ClearsOnFailure(r, response) ==
    /\ blank.open
    /\ r \in blank.requests /\ r.kind = "generate"
    /\ LET received == [ blank EXCEPT !.requests = @ \ {r}, !.printResultHidden = FALSE ]
       IN  blank' =
             IF response.thrown \/ ~ok(response)
             THEN Did([ received EXCEPT !.latestRun = NoRun, !.printStatus = setTargetStatus(
                            IF response.thrown
                            THEN OrElse(response.message, "Unable to generate blank checks.")
                            ELSE OrElse(response.payload.error, "Unable to generate blank checks."),
                            << >>, TRUE) ],
                      "GenerateResponse", Kind("failed", response), NoRequest)
             ELSE Did([ received EXCEPT
                          !.latestRun = RecordedRun(blank, r),
                          !.printStatus = setTargetStatus(
                              "PDFs generated (micr/nomicr). Confirm whether the print succeeded.",
                              << >>, FALSE) ],
                      "GenerateResponse", "generated", NoRequest)
    /\ UNCHANGED NotBlank

GenerateResponse(r, response) ==
    /\ blank.open
    /\ r \in blank.requests /\ r.kind = "generate"
    /\ LET received == [ blank EXCEPT !.requests = @ \ {r}, !.printResultHidden = FALSE ]
       IN  blank' =
             IF response.thrown \/ ~ok(response)
             THEN Did([ received EXCEPT !.printStatus = setTargetStatus(
                            IF response.thrown
                            THEN OrElse(response.message, "Unable to generate blank checks.")
                            ELSE OrElse(response.payload.error, "Unable to generate blank checks."),
                            << >>, TRUE) ],
                      "GenerateResponse", Kind("failed", response), NoRequest)
             ELSE Did([ received EXCEPT
                          !.latestRun = RecordedRun(blank, r),
                          !.printStatus = setTargetStatus(
                              "PDFs generated (micr/nomicr). Confirm whether the print succeeded.",
                              << >>, FALSE) ],
                      "GenerateResponse", "generated", NoRequest)
    /\ UNCHANGED NotBlank

(***************************************************************************)
(* Clicks on the print-succeeded and print-failed buttons, and the         *)
(* response to the update the first one posts (blank_checks.js:247-284).   *)
(***************************************************************************)
\* An update built from the source selected when the button is clicked.
UpdateOf_CurrentSource(run, id) ==
    IF blank.source = "dsql"
    THEN Request("update", id, "/api/dsql/accounts/{}/next-check", blank.source,
                 run.accountName, "next_check_number", run.lastCheckNumber + 1,
                 << >>, << >>, << >>)
    ELSE Request("update", id, "/api/accounts/{}/last-check", blank.source,
                 run.accountName, "last_check_number", run.lastCheckNumber,
                 << >>, << >>, << >>)

\* The update the success handler posts for a recorded run.
UpdateOf(run, id) ==
    IF run.accountSource = "dsql"
    THEN Request("update", id, "/api/dsql/accounts/{}/next-check", run.accountSource,
                 run.accountName, "next_check_number", run.lastCheckNumber + 1,
                 << >>, << >>, << >>)
    ELSE Request("update", id, "/api/accounts/{}/last-check", run.accountSource,
                 run.accountName, "last_check_number", run.lastCheckNumber,
                 << >>, << >>, << >>)

SuccessClick ==
    /\ blank.open
    /\ blank.events < MaxEvents
    /\ LET clicked == [ blank EXCEPT !.events = @ + 1 ]
           request == UpdateOf(blank.latestRun, clicked.events)
       IN  blank' =
             IF ~blank.latestRun.set
             THEN Did(clicked, "SuccessClick", "norun", NoRequest)
             ELSE Did([ clicked EXCEPT !.requests = @ \cup {request} ],
                      "SuccessClick", "send", request)
    /\ UNCHANGED NotBlank

\* The server answers with the number it stored.
UpdateResponses(r) ==
    { Http(200, [ NoBlankPayload EXCEPT !.number = r.number ]) } \cup BlankFailures

Max(a, b) == IF a >= b THEN a ELSE b

UpdateResponse(r, response) ==
    /\ blank.open
    /\ r \in blank.requests /\ r.kind = "update"
    /\ LET received == [ blank EXCEPT !.requests = @ \ {r} ]
           updatedValue == response.payload.number
       IN  blank' =
             IF response.thrown \/ ~ok(response)
             THEN Did([ received EXCEPT !.printStatus = setTargetStatus(
                            IF response.thrown
                            THEN OrElse(response.message, "Unable to update check number.")
                            ELSE OrElse(response.payload.error, "Unable to update check number."),
                            << >>, TRUE) ],
                      "UpdateResponse", Kind("failed", response), NoRequest)
             ELSE IF ~blank.latestRun.set
             THEN \* latestRun.accountSource of null throws a TypeError, which is caught
                  Did([ received EXCEPT !.printStatus = setTargetStatus(
                            "Cannot read properties of null", << >>, TRUE) ],
                      "UpdateResponse", "norun", NoRequest)
             ELSE Did([ received EXCEPT
                          !.lastNumber = IF blank.latestRun.accountSource = "dsql"
                                         THEN Typed(Max(updatedValue - 1, 1))
                                         ELSE Typed(updatedValue),
                          !.first = IF blank.latestRun.accountSource = "dsql"
                                    THEN Typed(Max(updatedValue, 1))
                                    ELSE Typed(updatedValue + 1),
                          !.printStatus = setTargetStatus(
                              "Marked successful. Account numbering updated.", << >>, FALSE) ],
                      "UpdateResponse", "updated", NoRequest)
    /\ UNCHANGED NotBlank

\* A failure handler that only reports.
FailureClick_KeepsRun ==
    /\ blank.open
    /\ blank.events < MaxEvents
    /\ blank' = Did([ blank EXCEPT
                        !.events = @ + 1,
                        !.printStatus = setTargetStatus(
                            "Marked unsuccessful. Account numbering unchanged.", << >>, FALSE) ],
                    "FailureClick", "", NoRequest)
    /\ UNCHANGED NotBlank

FailureClick ==
    /\ blank.open
    /\ blank.events < MaxEvents
    /\ blank' = Did([ blank EXCEPT
                        !.events = @ + 1,
                        !.latestRun = NoRun,
                        !.printStatus = setTargetStatus(
                            "Marked unsuccessful. Account numbering unchanged.", << >>, FALSE) ],
                    "FailureClick", "", NoRequest)
    /\ UNCHANGED NotBlank

BlankNext ==
    \/ \E source \in { "local", "dsql" } : SourceChange(source)
    \/ \E r \in blank.requests : \E response \in RefreshResponses(r.source) :
          AccountsResponse(r, response)
    \/ \E i \in 1..Len(blank.options) : SelectAccount(i)
    \/ \E name \in Names : EditName(name)
    \/ \E first \in NumberTexts, total \in NumberTexts : EditNumbers(first, total)
    \/ SaveClick
    \/ \E r \in blank.requests : \E response \in SaveResponses(r) : SaveResponse(r, response)
    \/ Generate
    \/ \E r \in blank.requests : \E response \in GenerateResponses : GenerateResponse(r, response)
    \/ SuccessClick
    \/ \E r \in blank.requests : \E response \in UpdateResponses(r) : UpdateResponse(r, response)
    \/ FailureClick

BlankSpec == BlankInit /\ [][BlankNext]_vars

(***************************************************************************)
(* Part 5: the presets of the check form page (unnamed/part_000).  The     *)
(* page state is the record `preset`: the preset select, the name field,   *)
(* the status line, the requests awaiting their response and history.      *)
(***************************************************************************)
NoPresetPayload == [ error |-> "", settings |-> << >>, name |-> << >> ]

PresetFailures ==
    { Http(400, [ NoPresetPayload EXCEPT !.error = "Invalid preset name." ]),
      Thrown("Failed to fetch") }

\* The lists GET /api/settings returns.
PresetLists == { << >>, << << "a" >>, << "b" >> >> }

\* setStatus(message, isError) of the check form page; arg is the name a message quotes.
setPresetStatus(message, arg, isError) ==
    [ message |-> message, arg |-> arg, isError |-> isError ]

\* refreshPresets() up to its fetch: nothing is written before the response.
refreshPresets(page, after, saved) ==
    [ page EXCEPT
        !.requests = @ \cup { Request("refresh", page.nextRefresh, "/api/settings", "",
                                      saved, "", 0, << >>, << >>, after) },
        !.nextRefresh = @ + 1 ]

\* The page once its script has run: the last statement calls refreshPresets().
PresetLoaded ==
    refreshPresets(
        [ open |-> TRUE,
          options |-> << >>,
          selected |-> << >>,
          loadDisabled |-> FALSE,
          name |-> << >>,
          status |-> setPresetStatus("", << >>, FALSE),
          requests |-> {},
          nextRefresh |-> 1,
          events |-> 0,
          last |-> Ran("load", "", NoRequest) ],
        << >>, << >>)

\* Everything but the check form page.
NotPreset ==
    << devicePollTimer, deviceCodeValue, devicePollInterval, deviceStatus,
       timers, startReqs, nextStart, polls, nextPoll, statusReqs,
       phase, refreshCalls, cancelled, answered, last, call, result, FormVars, blank >>

PresetEditName(name) ==
    /\ preset.open
    /\ preset.events < MaxEvents
    /\ name # preset.name
    /\ preset' = Did([ preset EXCEPT !.name = name, !.events = @ + 1 ],
                     "PresetEditName", "", NoRequest)
    /\ UNCHANGED NotPreset

PresetSelect(i) ==
    /\ preset.open
    /\ preset.events < MaxEvents
    /\ i \in 1..Len(preset.options)
    /\ preset.selected # preset.options[i].value
    /\ preset' = Did([ preset EXCEPT !.selected = preset.options[i].value, !.events = @ + 1 ],
                     "PresetSelect", "", NoRequest)
    /\ UNCHANGED NotPreset

\* const name = presetNameInput.value.trim(); if (!name) ...
PresetSaveGuard(page) == IF trim(page.name) = << >> THEN "unnamed" ELSE "send"

PresetSaveClick ==
    /\ preset.open
    /\ preset.events < MaxEvents
    /\ LET clicked == [ preset EXCEPT !.events = @ + 1 ]
           request == Request("save", 100 + clicked.events, "/api/settings", "",
                              trim(preset.name), "", 0, << >>, << >>, << >>)
       IN  preset' =
             IF PresetSaveGuard(preset) = "unnamed"
             THEN Did([ clicked EXCEPT !.status = setPresetStatus(
                            "Add a preset name before saving.", << >>, TRUE) ],
                      "PresetSaveClick", "unnamed", NoRequest)
             ELSE Did([ clicked EXCEPT !.requests = @ \cup {request} ],
                      "PresetSaveClick", "send", request)
    /\ UNCHANGED NotPreset

PresetSaveResponses(r) ==
    { Http(200, [ NoPresetPayload EXCEPT !.name = r.name ]) } \cup PresetFailures

PresetSaveResponse(r, response) ==
    /\ preset.open
    /\ r \in preset.requests /\ r.kind = "save"
    /\ LET received == [ preset EXCEPT !.requests = @ \ {r} ]
       IN  preset' =
             IF response.thrown \/ ~ok(response)
             THEN Did([ received EXCEPT !.status = setPresetStatus(
                            IF response.thrown
                            THEN OrElse(response.message, "Unable to save preset.")
                            ELSE OrElse(response.payload.error, "Unable to save preset."),
                            << >>, TRUE) ],
                      "PresetSaveResponse", Kind("failed", response), NoRequest)
             ELSE LET refreshed == refreshPresets(received, r.name, response.payload.name)
                  IN  Did(refreshed, "PresetSaveResponse", "saved",
                          CHOOSE q \in refreshed.requests :
                              q.kind = "refresh" /\ q.id = refreshed.nextRefresh - 1)
    /\ UNCHANGED NotPreset

PresetsResponses ==
    { Http(200, [ NoPresetPayload EXCEPT !.settings = list ]) : list \in PresetLists }
      \cup PresetFailures

\* The response to a refresh: the rest of refreshPresets(), and of the save
\* handler that awaited it.
PresetsResponse(r, response) ==
    /\ preset.open
    /\ r \in preset.requests /\ r.kind = "refresh"
    /\ LET received == [ preset EXCEPT !.requests = @ \ {r} ]
           refreshed ==
             IF response.thrown \/ ~ok(response)
             THEN [ received EXCEPT
                      !.loadDisabled = TRUE,
                      !.status = setPresetStatus("Unable to load presets right now.",
                                                 << >>, TRUE) ]
             ELSE [ received EXCEPT
                      !.options = [ i \in 1..Len(response.payload.settings) |->
                                      Option(response.payload.settings[i], r.id) ],
                      !.selected = << >>,
                      !.loadDisabled = (Len(response.payload.settings) = 0) ]
           done == IF r.after = << >> THEN refreshed
                   ELSE [ refreshed EXCEPT
                            !.selected = SelectValue(refreshed.options, r.after),
                            !.status = setPresetStatus("Saved preset", r.name, FALSE) ]
       IN  preset' = Did(done, "PresetsResponse",
                         Kind(IF ok(response) THEN "listed" ELSE "failed", response), NoRequest)
    /\ UNCHANGED NotPreset

\* Click on the load-preset button, and the response to its GET.
PresetLoadClick ==
    /\ preset.open
    /\ ~preset.loadDisabled
    /\ preset.events < MaxEvents
    /\ LET clicked == [ preset EXCEPT !.events = @ + 1 ]
           request == Request("load", 100 + clicked.events, "/api/settings/{}", "",
                              preset.selected, "", 0, << >>, << >>, << >>)
       IN  preset' =
             IF preset.selected = << >>
             THEN Did([ clicked EXCEPT !.status = setPresetStatus(
                            "Select a preset to load.", << >>, TRUE) ],
                      "PresetLoadClick", "unselected", NoRequest)
             ELSE Did([ clicked EXCEPT !.requests = @ \cup {request} ],
                      "PresetLoadClick", "send", request)
    /\ UNCHANGED NotPreset

PresetLoadResponses(r) ==
    { Http(200, [ NoPresetPayload EXCEPT !.name = r.name ]) } \cup PresetFailures

PresetLoadResponse(r, response) ==
    /\ preset.open
    /\ r \in preset.requests /\ r.kind = "load"
    /\ LET received == [ preset EXCEPT !.requests = @ \ {r} ]
       IN  preset' =
             IF response.thrown \/ ~ok(response)
             THEN Did([ received EXCEPT !.status = setPresetStatus(
                            "Unable to load preset.", << >>, TRUE) ],
                      "PresetLoadResponse", Kind("failed", response), NoRequest)
             ELSE Did([ received EXCEPT !.status = setPresetStatus(
                            "Loaded preset", response.payload.name, FALSE) ],
                      "PresetLoadResponse", "loaded", NoRequest)
    /\ UNCHANGED NotPreset

PresetNext ==
    \/ \E name \in Names : PresetEditName(name)
    \/ \E i \in 1..Len(preset.options) : PresetSelect(i)
    \/ PresetSaveClick
    \/ \E r \in preset.requests : \E response \in PresetSaveResponses(r) :
          PresetSaveResponse(r, response)
    \/ \E r \in preset.requests : \E response \in PresetsResponses : PresetsResponse(r, response)
    \/ PresetLoadClick
    \/ \E r \in preset.requests : \E response \in PresetLoadResponses(r) :
          PresetLoadResponse(r, response)

\* One of the two pages is open.
GuardInit ==
    /\ Loaded
    /\ call = NoCall
    /\ result = NoResult
    /\ \/ blank \in { BlankLoaded(source) : source \in { "local", "dsql" } } /\ preset = NoPage
       \/ blank = NoPage /\ preset = PresetLoaded

GuardNext ==
    \/ BlankNext
    \/ PresetNext

GuardSpec == GuardInit /\ [][GuardNext]_vars

(***************************************************************************)
(* Properties of the blank-checks page.                                    *)
(***************************************************************************)
\* The values of the options after the placeholder.
OptionValues(page) == [ i \in 1..Len(page.options) |-> page.options[i].value ]

RefreshOutstanding(page) == \E r \in page.requests : r.kind = "refresh"

\* C24: whenever no refresh request is outstanding, the options after the
\* placeholder are exactly the accounts the most recently started refresh
\* returned (none if it failed), with nothing left of an earlier refresh.
C24_SelectShowsLatestRefresh ==
    (blank.open /\ ~RefreshOutstanding(blank))
        => /\ OptionValues(blank) = blank.returned
           /\ \A i \in 1..Len(blank.options) : blank.options[i].refresh = blank.nextRefresh - 1

\* The requests of a kind a step sends, and the ones it receives the response of.
SentIn(kind) == { r \in blank'.requests \ blank.requests : r.kind = kind }

AnsweredIn(kind) == { r \in blank.requests \ blank'.requests : r.kind = kind }

\* C21: an update of the stored check number is sent only by a success click
\* made while a run is recorded, a run is recorded only by the successful
\* response to a generation request, and a success click without a recorded
\* run sends nothing; for a local account the update carries
\* last_check_number = first + total - 1 of the numbers the generation request
\* was submitted with, each read as 1 when it does not parse.
C21_UpdateOnlyAfterSuccess ==
    [][ /\ \A r \in SentIn("update") :
              /\ blank'.last.op = "SuccessClick"
              /\ blank.latestRun.set
              /\ blank.latestRun.accountSource = "local"
                    => r.key = "last_check_number" /\ r.number = blank.latestRun.lastCheckNumber
        /\ (blank'.last.op = "SuccessClick" /\ ~blank.latestRun.set)
              => blank'.requests = blank.requests
        /\ (blank'.latestRun # blank.latestRun /\ blank'.latestRun.set)
              => \E r \in AnsweredIn("generate") :
                    /\ blank'.last = Ran("GenerateResponse", "generated", NoRequest)
                    /\ r.source = "local"
                          => blank'.latestRun.lastCheckNumber = LastOfRun(r.first, r.total) ]_vars

\* C22: a failure click sends no request, clears the recorded run and leaves
\* the last and first check-number fields as they are; from then on a
\* success click sends no update, until the successful response to a
\* generation request records a run again.
C22_FailureLeavesNumbering ==
    [][ /\ blank'.last.op = "FailureClick"
              => /\ blank'.requests = blank.requests
                 /\ blank'.latestRun = NoRun
                 /\ blank'.lastNumber = blank.lastNumber
                 /\ blank'.first = blank.first
        /\ (~blank.latestRun.set /\ blank'.last.op = "SuccessClick")
              => /\ SentIn("update") = {}
                 /\ ~blank'.latestRun.set
        /\ (~blank.latestRun.set /\ blank'.latestRun.set)
              => /\ blank'.last = Ran("GenerateResponse", "generated", NoRequest)
                 /\ AnsweredIn("generate") # {} ]_vars

\* A success click that sent nothing, made after a failure click.
C22_Witness ==
    /\ blank.open
    /\ blank.last = Ran("SuccessClick", "norun", NoRequest)
    /\ blank.printStatus.message = "Marked unsuccessful. Account numbering unchanged."
    /\ blank.latestRun = NoRun
    /\ ~blank.printResultHidden

\* C25: a submit, rejected or sent, and a generation response that is not a
\* success leave latestRun as it is; latestRun is given a run only by the
\* successful response to a generation request; a success click made while
\* a run is recorded sends the update of that run, also after a failed attempt.
C25_RunReplacedOnlyOnSuccess ==
    [][ /\ blank'.last.op = "Generate" => blank'.latestRun = blank.latestRun
        /\ (blank'.last.op = "GenerateResponse" /\ blank'.last.kind # "generated")
              => blank'.latestRun = blank.latestRun
        /\ (blank'.latestRun # blank.latestRun /\ blank'.latestRun.set)
              => blank'.last.op = "GenerateResponse" /\ blank'.last.kind = "generated"
        /\ (blank'.last.op = "SuccessClick" /\ blank.latestRun.set)
              => /\ SentIn("update") = { blank'.last.sent }
                 /\ blank'.last.sent.name = blank.latestRun.accountName
                 /\ blank'.last.sent.source = blank.latestRun.accountSource
                 /\ blank'.last.sent.number - blank.latestRun.lastCheckNumber \in { 0, 1 } ]_vars

\* A success click that sent the update of the recorded run while the print
\* status shows the failure of a later generation.
C25_Witness ==
    /\ blank.open
    /\ blank.last.op = "SuccessClick" /\ blank.last.kind = "send"
    /\ blank.last.sent \in blank.requests
    /\ blank.latestRun.set
    /\ blank.printStatus.isError

\* C26: the run records the account name and source its generation request
\* was submitted with, and only a generation response or a failure click
\* changes it; the success click posts, to the account of the run,
\* next_check_number = lastCheckNumber + 1 at the DSQL next-check endpoint for
\* a DSQL run and last_check_number = lastCheckNumber at the last-check
\* endpoint for a local run, whatever source and account are selected then.
C26_UpdateUsesCapturedAccount ==
    [][ /\ blank'.latestRun # blank.latestRun
              => /\ blank'.last.op \in { "GenerateResponse", "FailureClick" }
                 /\ blank'.latestRun.set
                       => \E r \in AnsweredIn("generate") :
                             /\ blank'.latestRun.accountName = r.name
                             /\ blank'.latestRun.accountSource = r.source
        /\ \A r \in SentIn("update") :
              /\ blank.latestRun.set
              /\ r.name = blank.latestRun.accountName
              /\ r.source = blank.latestRun.accountSource
              /\ IF blank.latestRun.accountSource = "dsql"
                 THEN /\ r.endpoint = "/api/dsql/accounts/{}/next-check"
                      /\ r.key = "next_check_number"
                      /\ r.number = blank.latestRun.lastCheckNumber + 1
                 ELSE /\ r.endpoint = "/api/accounts/{}/last-check"
                      /\ r.key = "last_check_number"
                      /\ r.number = blank.latestRun.lastCheckNumber ]_vars

\* A success click has posted the update of a run generated for another
\* source than the one selected now.
C26_Witness ==
    /\ blank.open
    /\ blank.last.op = "SuccessClick" /\ blank.last.kind = "send"
    /\ blank.last.sent \in blank.requests
    /\ blank.last.sent.source # blank.source
    /\ blank.last.sent.name = blank.latestRun.accountName

\* C30: a click on save-account while the source is DSQL or while the
\* trimmed account name is empty, and a click on save-preset while the
\* trimmed preset name is empty, set an error status and nothing else: no
\* request is sent (no POST, no list refresh) and the select is as it was.
C30_SaveGuardsSendNothing ==
    [][ /\ (/\ blank.open
            /\ blank'.last.op = "SaveClick"
            /\ blank.source = "dsql" \/ trim(blank.name) = << >>)
              => /\ blank'.requests = blank.requests
                 /\ blank'.nextRefresh = blank.nextRefresh
                 /\ blank'.accountStatus =
                       setTargetStatus(IF blank.source = "dsql"
                                       THEN "DSQL accounts are managed in the database."
                                       ELSE "Add an account name before saving.",
                                       << >>, TRUE)
                 /\ blank' = [ blank EXCEPT !.accountStatus = blank'.accountStatus,
                                            !.events = blank'.events,
                                            !.last = blank'.last ]
        /\ (/\ preset.open
            /\ preset'.last.op = "PresetSaveClick"
            /\ trim(preset.name) = << >>)
              => /\ preset'.requests = preset.requests
                 /\ preset'.nextRefresh = preset.nextRefresh
                 /\ preset'.status = setPresetStatus("Add a preset name before saving.",
                                                     << >>, TRUE)
                 /\ preset' = [ preset EXCEPT !.status = preset'.status,
                                              !.events = preset'.events,
                                              !.last = preset'.last ] ]_vars

\* A click on save-account with a name of one space was turned away.
C30_Witness ==
    /\ blank.open
    /\ blank.last = Ran("SaveClick", "unnamed", NoRequest)
    /\ blank.name = << " " >>
    /\ blank.source = "local"
    /\ blank.accountStatus = setTargetStatus("Add an account name before saving.", << >>, TRUE)
    /\ \A r \in blank.requests : r.kind # "save"

(***************************************************************************)
(* Part 6: loading an account into the blank-checks form                   *)
(* (blank_checks.js:55-80, 127-157).                                       *)
(***************************************************************************)
\* Bound of the check numbers the server holds (not a program constant).
MaxCheckNumber == 3

\* The check numbers the server holds: the small ones and one of two digits.
CheckNumbers == (0..MaxCheckNumber) \cup { 12 }

JsonNull == [ kind |-> "null", number |-> 0, text |-> << >> ]

\* The text of an integer: its digits, after "-" when it is negative.
NumberText(n) == IF n < 0 THEN << "-" >> \o Typed(0 - n) ELSE Typed(n)

\* String(value), which parseInt applies to its argument and an input
\* element to the value assigned to it.
StringOf(value) ==
    CASE value.kind = "missing" -> << "u", "n", "d", "e", "f", "i", "n", "e", "d" >>
      [] value.kind = "null" -> << "n", "u", "l", "l" >>
      [] value.kind = "number" -> NumberText(value.number)
      [] OTHER -> value.text

\* !value
Falsy(value) ==
    \/ value.kind \in { "missing", "null" }
    \/ value.kind = "number" /\ value.number = 0
    \/ value.kind = "string" /\ value.text = << >>

\* Strings that do not start with a number.
JunkTexts == { << >>, << "x" >>, << "x", "7" >>, << "-" >> }

\* The values of next_check_number the server may hold.
NextCheckNumbers ==
    { Missing, JsonNull }
        \cup { JsonNumber(n) : n \in CheckNumbers \cup { 0 - 2, 0 - 1 } }
        \cup { JsonString(Typed(n)) : n \in CheckNumbers }
        \cup { JsonString(text) : text \in JunkTexts }

\* An applyDsqlAccount that keeps the numbers as they come.
applyDsqlAccount_Unclamped(page, data) ==
    LET nextCheckNumber == OrOne(parseInt(StringOf(data.next_check_number)))
    IN  [ page EXCEPT !.lastNumber = NumberText(nextCheckNumber - 1),
                      !.first = NumberText(nextCheckNumber) ]

\* applyDsqlAccount(data), on the two number fields.
applyDsqlAccount(page, data) ==
    LET nextCheckNumber == OrOne(parseInt(StringOf(data.next_check_number)))
        lastCheckNumber == Max(nextCheckNumber - 1, 1)
    IN  [ page EXCEPT !.lastNumber = NumberText(lastCheckNumber),
                      !.first = NumberText(Max(nextCheckNumber, 1)) ]

\* applyAccount(data), on the last-check-number field.
applyAccount(page, data) ==
    [ page EXCEPT !.lastNumber = IF Falsy(data.last_check_number) THEN << "1" >>
                                 ELSE StringOf(data.last_check_number) ]

\* dsqlAccounts.get(String(name)): of the accounts of one id the Map keeps the last.
Indexes(page, name) ==
    { i \in 1..Len(page.dsqlAccounts) : Typed(page.dsqlAccounts[i].bank_account_id) = name }

DsqlAccountOf(page, name) ==
    page.dsqlAccounts[CHOOSE i \in Indexes(page, name) : \A j \in Indexes(page, name) : j <= i]

\* Click on the load-account button: loadAccount(accountSelect.value).
LoadClick ==
    /\ blank.open
    /\ ~blank.loadDisabled
    /\ blank.events < MaxEvents
    /\ LET clicked == [ blank EXCEPT !.events = @ + 1 ]
           name == blank.selected
           request == Request("load", clicked.events, "/api/accounts/{}", "local", name,
                              "", 0, << >>, << >>, << >>)
       IN  blank' =
             CASE name = << >> ->
                    Did([ clicked EXCEPT !.accountStatus = setTargetStatus(
                              "Select an account to load.", << >>, TRUE) ],
                        "LoadClick", "unselected", NoRequest)
               [] name # << >> /\ blank.source = "dsql" /\ Indexes(blank, name) = {} ->
                    Did([ clicked EXCEPT !.accountStatus = setTargetStatus(
                              "DSQL account not found.", << >>, TRUE) ],
                        "LoadClick", "notfound", NoRequest)
               [] name # << >> /\ blank.source = "dsql" /\ Indexes(blank, name) # {} ->
                    LET account == DsqlAccountOf(blank, name)
                        applied == applyDsqlAccount([ clicked EXCEPT !.name = account.name ],
                                                    account)
                    IN  Did([ applied EXCEPT !.accountStatus = setTargetStatus(
                                  "Loaded DSQL account", account.name, FALSE) ],
                            "LoadClick", "dsql", NoRequest)
               [] OTHER ->
                    Did([ clicked EXCEPT !.requests = @ \cup {request} ],
                        "LoadClick", "send", request)
    /\ UNCHANGED NotBlank

\* The values of last_check_number a stored local account may hold.
LastCheckNumbers == { Missing, JsonNumber(0), JsonNumber(7) }

LoadResponses(r) ==
    { Http(200, [ error |-> "", name |-> r.name, data |-> [ last_check_number |-> v ] ]) :
        v \in LastCheckNumbers }
      \cup BlankFailures

LoadAccountResponse(r, response) ==
    /\ blank.open
    /\ r \in blank.requests /\ r.kind = "load"
    /\ LET received == [ blank EXCEPT !.requests = @ \ {r} ]
       IN  blank' =
             IF response.thrown \/ ~ok(response)
             THEN Did([ received EXCEPT !.accountStatus = setTargetStatus(
                            "Unable to load account.", << >>, TRUE) ],
                      "LoadAccountResponse", Kind("failed", response), NoRequest)
             ELSE LET applied == applyAccount([ received EXCEPT !.name = response.payload.name ],
                                              response.payload.data)
                  IN  Did([ applied EXCEPT !.accountStatus = setTargetStatus(
                                "Loaded account", response.payload.name, FALSE) ],
                          "LoadAccountResponse", "loaded", NoRequest)
    /\ UNCHANGED NotBlank

\* The account lists of the server whose accounts are loaded.
LoadRefreshResponses(source) ==
    IF source = "dsql"
    THEN { Http(200, [ NoBlankPayload EXCEPT
                         !.accounts = << DsqlAccount(3, << "d" >>, next) >> ]) :
             next \in NextCheckNumbers } \cup BlankFailures
    ELSE RefreshResponses(source)

\* The source is changed at most once, before anything else is done.
LoadNext ==
    \/ \E source \in { "local", "dsql" } : blank.events = 0 /\ SourceChange(source)
    \/ \E r \in blank.requests : \E response \in LoadRefreshResponses(r.source) :
          AccountsResponse(r, response)
    \/ \E i \in 1..Len(blank.options) : SelectAccount(i)
    \/ LoadClick
    \/ \E r \in blank.requests : \E response \in LoadResponses(r) :
          LoadAccountResponse(r, response)

LoadSpec == BlankInit /\ [][LoadNext]_vars

\* The number a next_check_number stands for: the number itself, the number
\* a string of digits writes, 1 when it is absent or not a number, and 1 for 0.
TreatedAs(value) ==
    LET n == IF value.kind = "number" THEN value.number
             ELSE IF \E k \in CheckNumbers : value = JsonString(Typed(k))
             THEN CHOOSE k \in CheckNumbers : value = JsonString(Typed(k))
             ELSE 1
    IN  IF n = 0 THEN 1 ELSE n

\* C31: loading a DSQL account whose next_check_number is n (1 when absent,
\* not a number, or 0) sets the last check number to max(n - 1, 1) and the
\* first check number to max(n, 1): both are at least 1, first >= last, and
\* first = last + 1 unless n <= 1, where both are 1.
C31_DsqlLoadNumbers ==
    [][ (blank'.last.op = "LoadClick" /\ blank'.last.kind = "dsql")
           => LET n == TreatedAs(DsqlAccountOf(blank, blank.selected).next_check_number)
                  lastCheckNumber == parseInt(blank'.lastNumber)
                  firstCheckNumber == parseInt(blank'.first)
              IN  /\ blank'.lastNumber = Typed(IF n - 1 >= 1 THEN n - 1 ELSE 1)
                  /\ blank'.first = Typed(IF n >= 1 THEN n ELSE 1)
                  /\ ~lastCheckNumber.nan /\ ~firstCheckNumber.nan
                  /\ lastCheckNumber.value >= 1
                  /\ firstCheckNumber.value >= lastCheckNumber.value
                  /\ IF n <= 1
                     THEN lastCheckNumber.value = 1 /\ firstCheckNumber.value = 1
                     ELSE firstCheckNumber.value = lastCheckNumber.value + 1 ]_vars

\* The DSQL account of next check number 12 was loaded: last 11, first 12.
C31_Witness ==
    /\ blank.open
    /\ blank.last = Ran("LoadClick", "dsql", NoRequest)
    /\ blank.source = "dsql"
    /\ Indexes(blank, blank.selected) # {}
    /\ DsqlAccountOf(blank, blank.selected).next_check_number = JsonNumber(12)
    /\ blank.lastNumber = << "1", "1" >>
    /\ blank.first = << "1", "2" >>

====
